---- MODULE Spec2Model ----
(***************************************************************************)
(* pobj: a hierarchical registry of named nodes (reg.go, obj.go), a type   *)
(* index, a tree-wide sync.RWMutex, and the typed fetch helper (helper.go).*)
(* Strings are sequences of one-character strings so that strings.Split    *)
(* and strings.IndexByte are computed, not assumed.                        *)
(***************************************************************************)
EXTENDS Integers, Sequences, FiniteSets, TLC

VARIABLES
    nodes,      \* heap of *Object, indexed by node id; nodes[root] is the root
    mheap,      \* heap of *Method, indexed by method id
    typLookup,  \* reflect.Type -> node id (the type index)
    mu,         \* sync.RWMutex: the writer (or NoThread) and the set of readers
    pc,         \* per thread: position inside the current call
    call,       \* per thread: the call being executed and its arguments
    c,          \* per thread: lookup's cursor `c`
    idx,        \* per thread: index of the segment lookup is at
    obj,        \* per thread: the *Object the caller holds (last returned)
    mth,        \* per thread: the *Method the caller holds (last returned)
    ret,        \* per thread: outcome of the last finished call
    get,        \* per thread: Object.ById's `get` and the argument it passes
    regLog,     \* history: successful Register/RegisterActions, in order
    invoked,    \* per thread: runs of the user callable in the current call, and what it observed
    fatal,      \* the runtime has aborted the process (fatal error)
    calls,      \* number of registering and of reading calls started so far
    frame,      \* per thread: the o.ById frame suspended while its callable calls the registry
    sm,         \* the *StaticMethod the dispatching caller holds
    dpc,        \* position of the dispatching caller
    dcall,      \* the dispatch being executed and its arguments
    dres        \* outcome of the dispatch: runs of the callable and of Scan, results

\* the state of the caller that builds and calls a StaticMethod
dispatch == <<sm, dpc, dcall, dres>>

\* the state of the registry and of its callers
registryVars == <<nodes, mheap, typLookup, mu, pc, call, c, idx, obj, mth, ret, get,
                  regLog, invoked, fatal, calls, frame>>

vars == <<nodes, mheap, typLookup, mu, pc, call, c, idx, obj, mth, ret, get,
          regLog, invoked, fatal, calls, frame, sm, dpc, dcall, dres>>

\* no StaticMethod built, no dispatch under way
DispatchInit ==
    /\ sm = [built |-> FALSE]
    /\ dpc = "idle"
    /\ dcall = [op |-> "none"]
    /\ dres = [op |-> "none"]

----------------------------------------------------------------------------
(* Bounds *)

NumThreads == 2
MaxCalls == 2
MaxReads == 2
MaxDocs == 2
MaxNested == 1

Threads == 1..NumThreads

----------------------------------------------------------------------------
(* Go values *)

NoNode == 0
NoMethod == 0
NoThread == 0
root == 1

\* A reflect.Type: a named base type under `ptr` levels of pointer.
Ty(b, p) == [base |-> b, ptr |-> p]
NoType == Ty("nil", 0)
T1 == Ty("T1", 0)
T2 == Ty("T2", 0)
T3 == Ty("T3", 0)
PtrTo(t) == Ty(t.base, t.ptr + 1)

\* The generic parameters callers instantiate Register / GetByType / ById with.
TypeArgs == {T1, T2, PtrTo(T1)}

\* for typ.Kind() == reflect.Pointer { typ = typ.Elem() }
RECURSIVE ElemLoop(_)
ElemLoop(t) == IF t.ptr > 0 THEN ElemLoop(Ty(t.base, t.ptr - 1)) ELSE t

\* reflect.TypeOf((*T)(nil)) followed by the Elem loop.
TypeOfArg(T) == ElemLoop(PtrTo(T))

----------------------------------------------------------------------------
(* Strings *)

\* strings.IndexByte(s, ch): 0-based index of the first ch, or -1.
IndexByte(s, ch) ==
    IF \E k \in 1..Len(s) : s[k] = ch
    THEN (CHOOSE k \in 1..Len(s) : s[k] = ch /\ \A j \in 1..(k-1) : s[j] # ch) - 1
    ELSE -1

\* s[lo:hi] with Go's 0-based half-open bounds.
Slice(s, lo, hi) == SubSeq(s, lo + 1, hi)

\* strings.Split(s, sep) for a one-byte separator: always at least one segment.
RECURSIVE Split(_, _)
Split(s, sep) ==
    LET k == IndexByte(s, sep)
    IN  IF k = -1 THEN <<s>>
        ELSE <<Slice(s, 0, k)>> \o Split(Slice(s, k + 1, Len(s)), sep)

\* Paths callers register and resolve: "a" and "a/b".
ObjNames == { <<"a">>, <<"a", "/", "b">> }

----------------------------------------------------------------------------
(* Callables *)

\* A Go value handed to Func: a function with parameter types `in` whose body
\* behaves as `out`, or something that is not a function.
GoFunc(in, out) == [isFunc |-> TRUE, in |-> in, out |-> out]
NotAFunc == [isFunc |-> FALSE, in |-> <<>>, out |-> "none"]

\* positions (1-based) of the context-capable parameters of fn
CtxPositions(fn) == {k \in 1..Len(fn.in) : fn.in[k] = "ctx"}

\* SelectSeq keeping positions: the positions of the data parameters, in order.
RECURSIVE DataPositions(_, _)
DataPositions(in, k) ==
    IF k > Len(in) THEN <<>>
    ELSE (IF in[k] = "ctx" THEN <<>> ELSE <<k - 1>>) \o DataPositions(in, k + 1)

NilCallable == [isnil |-> TRUE, fn |-> NotAFunc, cnt |-> 0, ctxPos |-> -1,
                argPos |-> <<>>, arg |-> <<>>]

\* Func(method) panics on a non-function and on a second context parameter.
FuncPanics(fn) == ~fn.isFunc \/ Cardinality(CtxPositions(fn)) > 1

\* Func(method): the signature descriptor (positions are 0-based as in Go).
Func(fn) ==
    IF FuncPanics(fn) THEN NilCallable
    ELSE [isnil |-> FALSE, fn |-> fn, cnt |-> Len(fn.in),
          ctxPos |-> IF CtxPositions(fn) = {} THEN -1
                     ELSE (CHOOSE k \in CtxPositions(fn) : TRUE) - 1,
          argPos |-> DataPositions(fn.in, 1),
          arg |-> [k \in 1..Len(DataPositions(fn.in, 1)) |->
                      fn.in[DataPositions(fn.in, 1)[k] + 1]]]

\* *ObjectActions: nil, or the four optional slots.
NilActions == [isnil |-> TRUE, Fetch |-> NilCallable, List |-> NilCallable,
               Clear |-> NilCallable, Create |-> NilCallable]
ObjectActions(fetch) == [isnil |-> FALSE, Fetch |-> fetch, List |-> NilCallable,
                         Clear |-> NilCallable, Create |-> NilCallable]

----------------------------------------------------------------------------
(* Dynamic values and results *)

\* An interface value: its dynamic type, whether it is a nil pointer, and the
\* identifier it carries (the string itself, or the Id/ID field).
Value(kind, typ, isnil, id) == [kind |-> kind, typ |-> typ, isnil |-> isnil, id |-> id]
NilValue == Value("nil", NoType, TRUE, "")
StringValue(str) == Value("string", Ty("string", 0), FALSE, str)
StructId(id) == Value("struct", Ty("structId", 0), FALSE, id)
PtrValue(T, id) == Value("ptr", PtrTo(T), FALSE, id)
NilPtrValue(T) == Value("ptr", PtrTo(T), TRUE, "")

NoErr == "nil"
ErrUnknownType == "pobj: unknown object type"
ErrMissingAction == "pobj: no such action exists"
ErrBadType == "pobj: bad type returned by Fetch"
ErrFetch == "fetch failed"
ErrAssign == "incompatible source type"

Ids == {"id1", "id2"}

\* What the user function returns, in declaration order, given the identifier
\* it observed: a list of reflect values, each of an error type or not.
Out(isErr, val, err) == [isErr |-> isErr, val |-> val, err |-> err]
Returns(fn, seen) ==
    CASE fn.out = "ptrT1"  -> <<Out(FALSE, PtrValue(T1, seen), NoErr), Out(TRUE, NilValue, NoErr)>>
      [] fn.out = "string" -> <<Out(FALSE, StringValue("wrong type"), NoErr), Out(TRUE, NilValue, NoErr)>>
      [] fn.out = "nilptr" -> <<Out(FALSE, NilPtrValue(T1), NoErr), Out(TRUE, NilValue, NoErr)>>
      [] fn.out = "nilany" -> <<Out(FALSE, NilValue, NoErr), Out(TRUE, NilValue, NoErr)>>
      [] fn.out = "error"  -> <<Out(FALSE, NilPtrValue(T1), NoErr), Out(TRUE, NilValue, ErrFetch)>>
      [] fn.out = "erroronly" -> <<Out(TRUE, NilValue, ErrFetch)>>
      [] fn.out = "errnil" -> <<Out(TRUE, NilValue, ErrFetch), Out(TRUE, NilValue, NoErr)>>
      [] fn.out = "twovals" -> <<Out(FALSE, StringValue("first"), NoErr),
                                 Out(TRUE, NilValue, ErrFetch),
                                 Out(FALSE, StringValue("second"), NoErr)>>
      [] OTHER             -> <<>>

\* mutant: an error that was found is kept when a later error slot is nil
RECURSIVE parseResultKeepsErr(_, _, _)
parseResultKeepsErr(res, output, err) ==
    IF res = <<>> THEN [val |-> output, err |-> err]
    ELSE IF Head(res).isErr
         THEN parseResultKeepsErr(Tail(res), output,
                                  IF Head(res).err = NoErr THEN err ELSE Head(res).err)
         ELSE parseResultKeepsErr(Tail(res), Head(res).val, err)

\* parseResult: the last error-typed slot is the error, the last other slot
\* the output; nothing returned gives (nil, nil).
RECURSIVE parseResult(_, _, _)
parseResult(res, output, err) ==
    IF res = <<>> THEN [val |-> output, err |-> err]
    ELSE IF Head(res).isErr
         THEN parseResult(Tail(res), output, Head(res).err)
         ELSE parseResult(Tail(res), Head(res).val, err)

\* Binding one argument into a data slot of declared type `slot`: a string
\* into a string slot is assigned; a record is copied field by field, by name,
\* into a record slot (fields the slot lacks are ignored); anything else fails.
AssignReflect(slot, arg) ==
    CASE slot = "string" /\ arg.kind = "string"     -> [err |-> NoErr, seen |-> arg.id]
      [] slot = "structId" /\ arg.kind = "struct"   -> [err |-> NoErr, seen |-> arg.id]
      [] slot = "structName" /\ arg.kind = "struct" -> [err |-> NoErr, seen |-> ""]
      [] OTHER                                      -> [err |-> ErrAssign, seen |-> ""]

\* s.IsStringArg(n): the n-th data slot exists and is of string kind.
IsStringArg(s, n) == Len(s.arg) > n /\ s.arg[n + 1] = "string"

\* CallArg(ctx, arg) with one argument: binds it to the first data slot and,
\* if that succeeds, runs the function once. `ran` tells whether it ran.
CallArg(s, arg) ==
    IF Len(s.argPos) = 0
    THEN [ran |-> TRUE, seen |-> "",
          res |-> parseResult(Returns(s.fn, ""), NilValue, NoErr)]
    ELSE LET b == AssignReflect(s.arg[1], arg)
         IN  IF b.err # NoErr
             THEN [ran |-> FALSE, seen |-> "", res |-> [val |-> NilValue, err |-> b.err]]
             ELSE [ran |-> TRUE, seen |-> b.seen,
                   res |-> parseResult(Returns(s.fn, b.seen), NilValue, NoErr)]

\* mutant: the identifier is always wrapped in the {Id} record
FetchArgWrapped(s, id) == StructId(id)

\* Object.ById's choice of calling convention.
FetchArg(s, id) == IF IsStringArg(s, 0) THEN StringValue(id) ELSE StructId(id)

\* mutant: any pointer passes the assertion
IsPtrToAny(res, T) == res.kind = "ptr"

\* res.(*T): the dynamic type of res is exactly *T.
IsPtrTo(res, T) == res.kind = "ptr" /\ res.typ = PtrTo(T)

\* ById's tail: an error passes through, a result that is not a *T is a
\* type-mismatch error, a *T is returned as it is.
ByIdResult(res, T) ==
    IF res.err # NoErr THEN [val |-> NilPtrValue(T), err |-> res.err]
    ELSE IF ~IsPtrTo(res.val, T) THEN [val |-> NilPtrValue(T), err |-> ErrBadType]
    ELSE [val |-> res.val, err |-> NoErr]

----------------------------------------------------------------------------
(* The registry heap *)

EmptyMap == <<>>

\* m[k] = v on a Go map (a nil map reads as the empty map; writers make it first).
MapSet(m, k, v) == [x \in (DOMAIN m) \cup {k} |-> IF x = k THEN v ELSE m[x]]

\* &Object{parent: c, name: s}
NewObject(parent, name) ==
    [name |-> name, typ |-> NoType, children |-> EmptyMap, methods |-> EmptyMap,
     fields |-> EmptyMap, Action |-> NilActions, parent |-> parent, doc |-> ""]

\* lookup's loop body, read half: the child of c named s, or NoNode.
ChildOf(ns, cur, s) ==
    IF s \in DOMAIN ns[cur].children THEN ns[cur].children[s] ELSE NoNode

\* lookup's loop body, create half: x := &Object{...}; c.children[s] = x.
AddChild(ns, cur, s) ==
    Append([ns EXCEPT ![cur].children = MapSet(@, s, Len(ns) + 1)],
           NewObject(cur, s))

\* lookup(p, false) run to completion on the heap ns, as Get does under RLock.
RECURSIVE lookupFrom(_, _, _, _)
lookupFrom(ns, cur, pa, i) ==
    IF i > Len(pa) THEN cur
    ELSE IF ChildOf(ns, cur, pa[i]) = NoNode THEN NoNode
    ELSE lookupFrom(ns, ChildOf(ns, cur, pa[i]), pa, i + 1)

lookup(ns, p) == lookupFrom(ns, root, Split(p, "/"), 1)

\* typLookup[t] if present, else nil.
TypLookupGet(tl, t) == IF t \in DOMAIN tl THEN tl[t] ELSE NoNode

\* o.New(): nil without a type, else a pointer to a fresh o.typ.
New(ns, o) == IF ns[o].typ = NoType THEN NoType ELSE PtrTo(ns[o].typ)

----------------------------------------------------------------------------
(* Calls and their arguments *)

Call(op, name, T, actions, fn, id) ==
    [op |-> op, name |-> name, T |-> T, actions |-> actions, fn |-> fn, id |-> id]
\* the user callable ran n times in this call, was handed arg and observed seen
Invocation(n, arg, seen) == [n |-> n, arg |-> arg, seen |-> seen]
NotInvoked == Invocation(0, NilValue, "")

NoCall == Call("none", <<>>, NoType, NilActions, NotAFunc, "")

\* what a call that runs a user callable keeps on its stack while the callable
\* is inside a registry function: its arguments, o, and `get`
Frame(cl, o, g) == [live |-> TRUE, call |-> cl, c |-> o, get |-> g]
NoFrame == [live |-> FALSE]

\* Outcome of a finished call: whether it panicked, the node it returned, and
\* the (value, error) pair of the fetch helpers.
Ret(panicked, node, val, err) ==
    [panicked |-> panicked, node |-> node, meth |-> NoMethod, val |-> val,
     err |-> err, names |-> <<>>, callable |-> NilCallable, all |-> <<>>]
NoRet == Ret(FALSE, NoNode, NilValue, NoErr)

\* Method registration names: "a:m", "a/b:m", "a:m:n" and, without ':', "am".
MethodNames == { <<"a", ":", "m">>, <<"a", "/", "b", ":", "m">>,
                 <<"a", ":", "m", ":", "n">>, <<"a", "m">> }

\* Fetch functions: func(ctx, id string) (*T1, error) and the legacy
\* func(ctx, args struct{ Id string }) (*T1, error).
FetchById == GoFunc(<<"ctx", "string">>, "ptrT1")
FetchByArgs == GoFunc(<<"ctx", "structId">>, "ptrT1")

\* What RegisterMethod is handed: one of two functions, a non-function.
MethodFns == {FetchById, FetchByArgs, NotAFunc}

\* Action sets of the concurrent registry workload.
RegActions == {ObjectActions(Func(FetchById))}

----------------------------------------------------------------------------
(* State after package initialisation *)

Init ==
    /\ nodes = <<NewObject(NoNode, <<>>)>>
    /\ mheap = <<>>
    /\ typLookup = EmptyMap
    /\ mu = [writer |-> NoThread, readers |-> {}]
    /\ pc = [t \in Threads |-> "idle"]
    /\ call = [t \in Threads |-> NoCall]
    /\ c = [t \in Threads |-> NoNode]
    /\ idx = [t \in Threads |-> 0]
    /\ obj = [t \in Threads |-> NoNode]
    /\ mth = [t \in Threads |-> NoMethod]
    /\ ret = [t \in Threads |-> NoRet]
    /\ get = [t \in Threads |-> [fn |-> NilCallable, arg |-> NilValue]]
    /\ regLog = <<>>
    /\ invoked = [t \in Threads |-> NotInvoked]
    /\ fatal = FALSE
    /\ calls = [reg |-> 0, read |-> 0, doc |-> 0, nested |-> 0]
    /\ frame = [t \in Threads |-> NoFrame]
    /\ DispatchInit

----------------------------------------------------------------------------
(* sync.RWMutex *)

\* mutant: Lock() returns at once, whoever holds the lock
CanLockAlways(m) == TRUE

\* Lock() returns once there is no writer and no reader.
CanLock(m) == m.writer = NoThread /\ m.readers = {}

\* RLock() returns once there is no writer; a blocked Lock call excludes new
\* readers from acquiring the lock.
CanRLock(m, waiting) == m.writer = NoThread /\ ~waiting

WriterWaiting == \E u \in Threads : pc[u] = "Lock"

\* mutant: strings.LastIndexByte, the name is split at its last ':'
SplitPosLast(name) ==
    IF \E k \in 1..Len(name) : name[k] = ":"
    THEN (CHOOSE k \in 1..Len(name) :
            name[k] = ":" /\ \A j \in (k+1)..Len(name) : name[j] # ":") - 1
    ELSE -1

\* pos := strings.IndexByte(name, ':')
SplitPos(name) == IndexByte(name, ":")

\* name[:pos], the object path of a method name
ObjectPath(name) == Slice(name, 0, SplitPos(name))

\* name[pos+1:], the method name
MethodName(name) == Slice(name, SplitPos(name) + 1, Len(name))

\* the path lookup is called with
LookupPath(k) == IF k.op = "RegisterMethod" THEN ObjectPath(k.name) ELSE k.name

\* where a call continues once lookup has returned
AfterLookup(op) ==
    CASE op = "Register"        -> "Register"
      [] op = "RegisterActions" -> "RegisterActions"
      [] op = "RegisterMethod"  -> "RegisterMethod"
      [] OTHER                  -> "RUnlock"

\* mu.Lock()
Lock(t) ==
    /\ pc[t] = "Lock"
    /\ CanLock(mu)
    /\ mu' = [mu EXCEPT !.writer = t]
    /\ pc' = [pc EXCEPT ![t] = "lookup"]
    /\ c' = [c EXCEPT ![t] = root]
    /\ idx' = [idx EXCEPT ![t] = 1]
    /\ UNCHANGED <<nodes, mheap, typLookup, call, obj, mth, ret, get, regLog, invoked, fatal, calls, dispatch, frame>>

\* mutant: the lock is released on return only, a panic leaves it held
UnlockOnReturnOnly(t) ==
    /\ pc[t] = "Unlock"
    /\ mu' = IF ret[t].panicked THEN mu ELSE [mu EXCEPT !.writer = NoThread]
    /\ pc' = [pc EXCEPT ![t] = "done"]
    /\ UNCHANGED <<nodes, mheap, typLookup, call, c, idx, obj, mth, ret, get, regLog,
                   invoked, fatal, calls, dispatch, frame>>

\* defer mu.Unlock(): runs on return and on panic alike.
Unlock(t) ==
    /\ pc[t] = "Unlock"
    /\ mu' = [mu EXCEPT !.writer = NoThread]
    /\ pc' = [pc EXCEPT ![t] = "done"]
    /\ UNCHANGED <<nodes, mheap, typLookup, call, c, idx, obj, mth, ret, get, regLog,
                   invoked, fatal, calls, dispatch, frame>>

\* mu.RLock()
RLock(t) ==
    /\ pc[t] = "RLock"
    /\ CanRLock(mu, WriterWaiting)
    /\ mu' = [mu EXCEPT !.readers = @ \cup {t}]
    /\ pc' = [pc EXCEPT ![t] = CASE call[t].op = "Get"  -> "lookup"
                                  [] call[t].op = "Root" -> "RUnlock"
                                  [] call[t].op = "All"  -> "All"
                                  [] OTHER               -> "GetByType"]
    /\ c' = [c EXCEPT ![t] = root]
    /\ idx' = [idx EXCEPT ![t] = 1]
    /\ UNCHANGED <<nodes, mheap, typLookup, call, obj, mth, ret, get, regLog, invoked, fatal, calls, dispatch, frame>>

\* mutant: ById keeps GetByType's shared lock until Fetch has returned
RUnlockAfterFetch(t) ==
    /\ pc[t] = "RUnlock"
    /\ mu' = IF call[t].op = "ById" THEN mu ELSE [mu EXCEPT !.readers = @ \ {t}]
    /\ IF call[t].op = "ById"
       THEN /\ pc' = [pc EXCEPT ![t] = "ById"]
            /\ UNCHANGED ret
       ELSE IF call[t].op = "All"
       THEN /\ pc' = [pc EXCEPT ![t] = "done"]
            /\ UNCHANGED ret
       ELSE /\ pc' = [pc EXCEPT ![t] = "done"]
            /\ ret' = [ret EXCEPT ![t] = Ret(FALSE, c[t], NilValue, NoErr)]
    /\ UNCHANGED <<nodes, mheap, typLookup, call, c, idx, obj, mth, get, regLog, invoked,
                   fatal, calls, dispatch, frame>>

\* defer mu.RUnlock(), then the return of Get / GetByType; ById goes on.
RUnlock(t) ==
    /\ pc[t] = "RUnlock"
    /\ mu' = [mu EXCEPT !.readers = @ \ {t}]
    /\ IF call[t].op = "ById"
       THEN /\ pc' = [pc EXCEPT ![t] = "ById"]
            /\ UNCHANGED ret
       ELSE IF call[t].op = "All"
       THEN /\ pc' = [pc EXCEPT ![t] = "done"]
            /\ UNCHANGED ret
       ELSE /\ pc' = [pc EXCEPT ![t] = "done"]
            /\ ret' = [ret EXCEPT ![t] = Ret(FALSE, c[t], NilValue, NoErr)]
    /\ UNCHANGED <<nodes, mheap, typLookup, call, c, idx, obj, mth, get, regLog, invoked,
                   fatal, calls, dispatch, frame>>

----------------------------------------------------------------------------
(* lookup, one loop iteration at a time *)

\* mutant: every lookup is made with create = true
CreatesAlways(op) == TRUE

\* the create argument of lookup: true from the Register functions, false from Get
Creates(op) == op \in {"Register", "RegisterActions", "RegisterMethod"}

Segments(t) == Split(LookupPath(call[t]), "/")

\* lines 76-84: follow the child named s if there is one; without create a
\* missing child ends the lookup with nil.
LookupRead(t) ==
    /\ pc[t] = "lookup"
    /\ LET pa == Segments(t)
           x  == ChildOf(nodes, c[t], pa[idx[t]])
       IN  IF x # NoNode
           THEN /\ c' = [c EXCEPT ![t] = x]
                /\ idx' = [idx EXCEPT ![t] = @ + 1]
                /\ pc' = [pc EXCEPT ![t] =
                            IF idx[t] = Len(pa) THEN AfterLookup(call[t].op) ELSE "lookup"]
           ELSE IF ~Creates(call[t].op)
           THEN /\ c' = [c EXCEPT ![t] = NoNode]
                /\ pc' = [pc EXCEPT ![t] = AfterLookup(call[t].op)]
                /\ UNCHANGED idx
           ELSE /\ pc' = [pc EXCEPT ![t] = "create"]
                /\ UNCHANGED <<c, idx>>
    /\ UNCHANGED <<nodes, mheap, typLookup, mu, call, obj, mth, ret, get, regLog,
                   invoked, fatal, calls, dispatch, frame>>

\* lines 85-90: create the missing child and step into it.
LookupCreate(t) ==
    /\ pc[t] = "create"
    /\ LET pa == Segments(t)
       IN  /\ nodes' = AddChild(nodes, c[t], pa[idx[t]])
           /\ c' = [c EXCEPT ![t] = Len(nodes) + 1]
           /\ idx' = [idx EXCEPT ![t] = @ + 1]
           /\ pc' = [pc EXCEPT ![t] =
                       IF idx[t] = Len(pa) THEN AfterLookup(call[t].op) ELSE "lookup"]
    /\ UNCHANGED <<mheap, typLookup, mu, call, obj, mth, ret, get, regLog, invoked,
                   fatal, calls, dispatch, frame>>

----------------------------------------------------------------------------
(* Register, RegisterActions *)

\* mutant: the check is inverted and rejects only a repeated, equal type
RegisterPanicsOnSameType(ns, o, T) == ns[o].typ = TypeOfArg(T)

\* mutant: a node that has a type is registered again
RegisterNeverPanics(ns, o, T) == FALSE

\* if o.typ != nil { panic(...) }
RegisterPanics(ns, o, T) == ns[o].typ # NoType

\* mutant: the Elem loop is left out, o.typ stays the pointer type *T
SetTypNoElem(ns, o, T) == [ns EXCEPT ![o].typ = PtrTo(T)]

\* o.typ = reflect.TypeOf((*T)(nil)) with the pointers stripped
SetTyp(ns, o, T) == [ns EXCEPT ![o].typ = TypeOfArg(T)]

\* mutant: an existing entry of the type index is kept (first one wins)
SetTypLookupIfAbsent(tl, ty, o) == IF ty \in DOMAIN tl THEN tl ELSE MapSet(tl, ty, o)

\* typLookup[o.typ] = o
SetTypLookup(tl, ty, o) == MapSet(tl, ty, o)

Registered(t, o) == [name |-> call[t].name, T |-> call[t].T, node |-> o]

CallRegister(t, names, types) ==
    /\ pc[t] = "idle" /\ calls.reg < MaxCalls
    /\ \E name \in names, T \in types :
          call' = [call EXCEPT ![t] = Call("Register", name, T, NilActions, NotAFunc, "")]
    /\ pc' = [pc EXCEPT ![t] = "Lock"]
    /\ calls' = [calls EXCEPT !.reg = @ + 1]
    /\ UNCHANGED <<nodes, mheap, typLookup, mu, c, idx, obj, mth, ret, get, regLog,
                   invoked, fatal, dispatch, frame>>

\* Register, after lookup(name, true) returned o.
Register(t) ==
    /\ pc[t] = "Register"
    /\ pc' = [pc EXCEPT ![t] = "Unlock"]
    /\ LET o == c[t]
       IN  IF RegisterPanics(nodes, o, call[t].T)
           THEN /\ ret' = [ret EXCEPT ![t] = Ret(TRUE, NoNode, NilValue, NoErr)]
                /\ UNCHANGED <<nodes, typLookup, regLog>>
           ELSE /\ nodes' = SetTyp(nodes, o, call[t].T)
                /\ typLookup' = SetTypLookup(typLookup, TypeOfArg(call[t].T), o)
                /\ ret' = [ret EXCEPT ![t] = Ret(FALSE, o, NilValue, NoErr)]
                /\ regLog' = Append(regLog, Registered(t, o))
    /\ UNCHANGED <<mheap, mu, call, c, idx, obj, mth, get, invoked, fatal, calls, dispatch, frame>>

CallRegisterActions(t, names, types, menu) ==
    /\ pc[t] = "idle" /\ calls.reg < MaxCalls
    /\ \E name \in names, T \in types, a \in menu :
          call' = [call EXCEPT ![t] = Call("RegisterActions", name, T, a, NotAFunc, "")]
    /\ pc' = [pc EXCEPT ![t] = "Lock"]
    /\ calls' = [calls EXCEPT !.reg = @ + 1]
    /\ UNCHANGED <<nodes, mheap, typLookup, mu, c, idx, obj, mth, ret, get, regLog,
                   invoked, fatal, dispatch, frame>>

\* RegisterActions, after lookup(name, true) returned o.
RegisterActions(t) ==
    /\ pc[t] = "RegisterActions"
    /\ pc' = [pc EXCEPT ![t] = "Unlock"]
    /\ LET o == c[t]
       IN  IF RegisterPanics(nodes, o, call[t].T)
           THEN /\ ret' = [ret EXCEPT ![t] = Ret(TRUE, NoNode, NilValue, NoErr)]
                /\ UNCHANGED <<nodes, typLookup, regLog>>
           ELSE /\ nodes' = [SetTyp(nodes, o, call[t].T) EXCEPT ![o].Action = call[t].actions]
                /\ typLookup' = SetTypLookup(typLookup, TypeOfArg(call[t].T), o)
                /\ ret' = [ret EXCEPT ![t] = Ret(FALSE, o, NilValue, NoErr)]
                /\ regLog' = Append(regLog, Registered(t, o))
    /\ UNCHANGED <<mheap, mu, call, c, idx, obj, mth, get, invoked, fatal, calls, dispatch, frame>>

----------------------------------------------------------------------------
(* RegisterMethod (RegisterStatic forwards to it) *)

\* the two panics before the lock is taken: no ':' in the name, or Func(fn)
\* failing (it panics on a non-function; a nil callable panics here)
RegisterMethodPanics(name, fn) ==
    SplitPos(name) = -1 \/ FuncPanics(fn) \/ Func(fn).isnil

\* mutant: a binding that exists is kept
SetMethodIfAbsent(ms, name, m) == IF name \in DOMAIN ms THEN ms ELSE MapSet(ms, name, m)

\* o.methods[methodName] = m
SetMethod(ms, name, m) == MapSet(ms, name, m)

\* &Method{callable: callable, object: o, name: methodName}
NewMethod(callable, o, name) ==
    [callable |-> callable, object |-> o, name |-> name, doc |-> "",
     requiresInstance |-> FALSE]

\* RegisterMethod up to mu.Lock(): the name is split and callable :=
\* typutil.Func(fn) is built, both before the lock is asked for
CallRegisterMethod(t) ==
    /\ pc[t] = "idle" /\ calls.reg < MaxCalls
    /\ calls' = [calls EXCEPT !.reg = @ + 1]
    /\ \E name \in MethodNames, fn \in MethodFns :
          /\ call' = [call EXCEPT ![t] = Call("RegisterMethod", name, NoType, NilActions, fn, "")]
          /\ IF RegisterMethodPanics(name, fn)
             THEN /\ ret' = [ret EXCEPT ![t] = Ret(TRUE, NoNode, NilValue, NoErr)]
                  /\ pc' = [pc EXCEPT ![t] = "done"]
                  /\ UNCHANGED get
             ELSE /\ pc' = [pc EXCEPT ![t] = "Lock"]
                  /\ get' = [get EXCEPT ![t].fn = Func(fn)]
                  /\ UNCHANGED ret
    /\ UNCHANGED <<nodes, mheap, typLookup, mu, c, idx, obj, mth, regLog,
                   invoked, fatal, dispatch, frame>>

\* RegisterMethod, after lookup(name[:pos], true) returned o.
RegisterMethod(t) ==
    /\ pc[t] = "RegisterMethod"
    /\ pc' = [pc EXCEPT ![t] = "Unlock"]
    /\ LET o == c[t]
           m == Len(mheap) + 1
       IN  /\ mheap' = Append(mheap, NewMethod(get[t].fn, o, MethodName(call[t].name)))
           /\ nodes' = [nodes EXCEPT ![o].methods = SetMethod(@, MethodName(call[t].name), m)]
           /\ ret' = [ret EXCEPT ![t] = [Ret(FALSE, NoNode, NilValue, NoErr) EXCEPT !.meth = m]]
    /\ UNCHANGED <<typLookup, mu, call, c, idx, obj, mth, get, regLog, invoked,
                   fatal, calls, dispatch, frame>>

----------------------------------------------------------------------------
(* Get, GetByType, Root *)

CallGet(t, names) ==
    /\ pc[t] = "idle" /\ calls.read < MaxReads
    /\ \E name \in names :
          call' = [call EXCEPT ![t] = Call("Get", name, NoType, NilActions, NotAFunc, "")]
    /\ pc' = [pc EXCEPT ![t] = "RLock"]
    /\ calls' = [calls EXCEPT !.read = @ + 1]
    /\ UNCHANGED <<nodes, mheap, typLookup, mu, c, idx, obj, mth, ret, get, regLog,
                   invoked, fatal, dispatch, frame>>

CallGetByType(t, types) ==
    /\ pc[t] = "idle" /\ calls.read < MaxReads
    /\ \E T \in types :
          call' = [call EXCEPT ![t] = Call("GetByType", <<>>, T, NilActions, NotAFunc, "")]
    /\ pc' = [pc EXCEPT ![t] = "RLock"]
    /\ calls' = [calls EXCEPT !.read = @ + 1]
    /\ UNCHANGED <<nodes, mheap, typLookup, mu, c, idx, obj, mth, ret, get, regLog,
                   invoked, fatal, dispatch, frame>>

\* GetByType / ById's first line, under the read lock: o, ok := typLookup[t]
GetByType(t) ==
    /\ pc[t] = "GetByType"
    /\ c' = [c EXCEPT ![t] = TypLookupGet(typLookup, TypeOfArg(call[t].T))]
    /\ pc' = [pc EXCEPT ![t] = "RUnlock"]
    /\ UNCHANGED <<nodes, mheap, typLookup, mu, call, idx, obj, mth, ret, get, regLog,
                   invoked, fatal, calls, dispatch, frame>>

\* Root(): return root, under the read lock
CallRoot(t) ==
    /\ pc[t] = "idle" /\ calls.read < MaxReads
    /\ call' = [call EXCEPT ![t] = Call("Root", <<>>, NoType, NilActions, NotAFunc, "")]
    /\ pc' = [pc EXCEPT ![t] = "RLock"]
    /\ calls' = [calls EXCEPT !.read = @ + 1]
    /\ UNCHANGED <<nodes, mheap, typLookup, mu, c, idx, obj, mth, ret, get, regLog,
                   invoked, fatal, dispatch, frame>>

\* for name := range m { res = append(res, name) }: every key once, in any
\* order
RangeKeys(m) ==
    {s \in [1..Cardinality(DOMAIN m) -> DOMAIN m] :
        \A i, j \in DOMAIN s : s[i] = s[j] => i = j}

\* All(): mu.RLock(), deferred RUnlock
CallAll(t) ==
    /\ pc[t] = "idle" /\ calls.read < MaxReads
    /\ call' = [call EXCEPT ![t] = Call("All", <<>>, NoType, NilActions, NotAFunc, "")]
    /\ pc' = [pc EXCEPT ![t] = "RLock"]
    /\ calls' = [calls EXCEPT !.read = @ + 1]
    /\ UNCHANGED <<nodes, mheap, typLookup, mu, c, idx, obj, mth, ret, get, regLog,
                   invoked, fatal, dispatch, frame>>

\* All(), under the read lock: for _, o := range typLookup { res = append(res, o) }
All(t) ==
    /\ pc[t] = "All"
    /\ \E keys \in RangeKeys(typLookup) :
          ret' = [ret EXCEPT ![t] =
                    [Ret(FALSE, NoNode, NilValue, NoErr) EXCEPT
                        !.all = [i \in DOMAIN keys |-> typLookup[keys[i]]]]]
    /\ pc' = [pc EXCEPT ![t] = "RUnlock"]
    /\ UNCHANGED <<nodes, mheap, typLookup, mu, call, c, idx, obj, mth, get, regLog,
                   invoked, fatal, calls, dispatch, frame>>

----------------------------------------------------------------------------
(* Accessors on the *Object the caller holds: none of them takes mu *)

Segs == { <<"a">>, <<"b">> }
MethNames == { <<"m">> }

\* threads about to write n.children (lookup's c.children[s] = x)
ChildrenWriters(n) == {u \in Threads : pc[u] = "create" /\ c[u] = n}

\* threads about to write n.methods (RegisterMethod's o.methods[methodName] = m)
MethodsWriters(n) == {u \in Threads : pc[u] = "RegisterMethod" /\ c[u] = n}

\* threads about to read n.children: lookup's loop, Child, Children
ChildrenReaders(n) ==
    {u \in Threads : \/ pc[u] = "lookup" /\ c[u] = n
                     \/ pc[u] \in {"Child", "Children"} /\ obj[u] = n}

\* threads about to read n.methods: Method, Methods, Static
MethodsReaders(n) ==
    {u \in Threads : pc[u] \in {"Method", "Methods", "Static"} /\ obj[u] = n}

CallAccessor(t) ==
    /\ pc[t] = "idle" /\ calls.read < MaxReads
    /\ \/ \E s \in Segs :
            /\ call' = [call EXCEPT ![t] = Call("Child", s, NoType, NilActions, NotAFunc, "")]
            /\ pc' = [pc EXCEPT ![t] = "Child"]
       \/ /\ call' = [call EXCEPT ![t] = Call("Children", <<>>, NoType, NilActions, NotAFunc, "")]
          /\ pc' = [pc EXCEPT ![t] = "Children"]
       \/ \E m \in MethNames, op \in {"Method", "Static"} :
            /\ call' = [call EXCEPT ![t] = Call(op, m, NoType, NilActions, NotAFunc, "")]
            /\ pc' = [pc EXCEPT ![t] = op]
       \/ /\ call' = [call EXCEPT ![t] = Call("Methods", <<>>, NoType, NilActions, NotAFunc, "")]
          /\ pc' = [pc EXCEPT ![t] = "Methods"]
    /\ calls' = [calls EXCEPT !.read = @ + 1]
    /\ UNCHANGED <<nodes, mheap, typLookup, mu, c, idx, obj, mth, ret, get, regLog,
                   invoked, fatal, dispatch, frame>>

\* a map read that overlaps a map write may abort the process
\* ("fatal error: concurrent map read and map write")
MapReadAborts(t, writers) ==
    /\ writers \ {t} # {}
    /\ fatal' = TRUE
    /\ pc' = [u \in Threads |-> "exit"]
    /\ UNCHANGED <<nodes, mheap, typLookup, mu, call, c, idx, obj, mth, ret, get,
                   regLog, invoked, calls, dispatch, frame>>

Returns1(t, r) ==
    /\ pc' = [pc EXCEPT ![t] = "done"]
    /\ ret' = [ret EXCEPT ![t] = r]
    /\ UNCHANGED <<nodes, mheap, typLookup, mu, call, c, idx, get, regLog, invoked,
                   fatal, calls, dispatch, frame>>

\* o.Child(name)
Child(t) ==
    /\ pc[t] = "Child"
    /\ LET o == obj[t]
           x == IF o = NoNode THEN NoNode ELSE ChildOf(nodes, o, call[t].name)
       IN  \/ /\ Returns1(t, Ret(FALSE, x, NilValue, NoErr))
              /\ UNCHANGED <<obj, mth>>
           \/ o # NoNode /\ MapReadAborts(t, ChildrenWriters(o))

\* o.Children()
Children(t) ==
    /\ pc[t] = "Children"
    /\ LET o == obj[t]
       IN  \/ /\ \E res \in (IF o = NoNode THEN {<<>>} ELSE RangeKeys(nodes[o].children)) :
                    Returns1(t, [Ret(FALSE, NoNode, NilValue, NoErr) EXCEPT !.names = res])
              /\ UNCHANGED <<obj, mth>>
           \/ o # NoNode /\ MapReadAborts(t, ChildrenWriters(o))

\* o.Method(name)
Method(t) ==
    /\ pc[t] = "Method"
    /\ LET o == obj[t]
           m == IF o # NoNode /\ call[t].name \in DOMAIN nodes[o].methods
                THEN nodes[o].methods[call[t].name] ELSE NoMethod
       IN  \/ /\ Returns1(t, [Ret(FALSE, NoNode, NilValue, NoErr) EXCEPT !.meth = m])
              /\ UNCHANGED <<obj, mth>>
           \/ o # NoNode /\ MapReadAborts(t, MethodsWriters(o))

\* o.Methods()
Methods(t) ==
    /\ pc[t] = "Methods"
    /\ LET o == obj[t]
       IN  \/ /\ \E res \in (IF o = NoNode THEN {<<>>} ELSE RangeKeys(nodes[o].methods)) :
                    Returns1(t, [Ret(FALSE, NoNode, NilValue, NoErr) EXCEPT !.names = res])
              /\ UNCHANGED <<obj, mth>>
           \/ o # NoNode /\ MapReadAborts(t, MethodsWriters(o))

\* o.Static(name): the callable of the method of that name (the deprecated
\* static map is never written and so never has it)
Static(t) ==
    /\ pc[t] = "Static"
    /\ LET o == obj[t]
           m == IF o # NoNode /\ call[t].name \in DOMAIN nodes[o].methods
                THEN nodes[o].methods[call[t].name] ELSE NoMethod
       IN  \/ /\ Returns1(t, [Ret(FALSE, NoNode, NilValue, NoErr) EXCEPT
                    !.callable = IF m = NoMethod THEN NilCallable ELSE mheap[m].callable])
              /\ UNCHANGED <<obj, mth>>
           \/ o # NoNode /\ MapReadAborts(t, MethodsWriters(o))

----------------------------------------------------------------------------
(* Object.String, Method.String *)

\* mutant: an empty name adds nothing to the path
RECURSIVE ObjectStringClean(_, _)
ObjectStringClean(ns, o) ==
    IF ns[o].parent \in {root, NoNode} THEN ns[o].name
    ELSE IF ns[o].name = <<>> THEN ObjectStringClean(ns, ns[o].parent)
    ELSE ObjectStringClean(ns, ns[o].parent) \o <<"/">> \o ns[o].name

\* o.String(): the name below the root (and of the root), else the parent's
\* String, a '/' and the name
RECURSIVE ObjectString(_, _)
ObjectString(ns, o) ==
    IF ns[o].parent \in {root, NoNode} THEN ns[o].name
    ELSE ObjectString(ns, ns[o].parent) \o <<"/">> \o ns[o].name

\* m.String(): the object's String, a ':' and the method name
MethodString(ns, mh, m) ==
    IF mh[m].object = NoNode THEN mh[m].name
    ELSE ObjectString(ns, mh[m].object) \o <<":">> \o mh[m].name

\* Paths with empty segments: "", "/b", "a/", "a//b", and "a", "a/b".
PathNames == { <<>>, <<"/", "b">>, <<"a", "/">>, <<"a", "/", "/", "b">>,
               <<"a">>, <<"a", "/", "b">> }

\* Get(o.String()) on the *Object the caller holds
CallGetString(t) ==
    /\ pc[t] = "idle" /\ calls.read < MaxReads
    /\ obj[t] # NoNode
    /\ call' = [call EXCEPT ![t] =
                  Call("Get", ObjectString(nodes, obj[t]), NoType, NilActions, NotAFunc, "")]
    /\ pc' = [pc EXCEPT ![t] = "RLock"]
    /\ calls' = [calls EXCEPT !.read = @ + 1]
    /\ UNCHANGED <<nodes, mheap, typLookup, mu, c, idx, obj, mth, ret, get, regLog,
                   invoked, fatal, dispatch, frame>>

----------------------------------------------------------------------------
(* Documentation setters on the *Object / *Method the caller holds *)

Docs == {"d"}
FieldNames == {"Name", "Nope"}

\* o.typ.FieldByName(fieldName) of a record type: the registered record
\* types have one field, Name string
FieldByName(typ, fieldName) ==
    IF typ # NoType /\ typ.ptr = 0 /\ fieldName = "Name" THEN "string" ELSE "nil"

\* &Field{name: fieldName, object: o}, with the type found by reflection
NewField(ns, o, fieldName) ==
    [name |-> fieldName, doc |-> "", typ |-> FieldByName(ns[o].typ, fieldName),
     object |-> o]

\* mutant: the setter also forgets the node's record type
SetObjectDocClearsTyp(ns, o, doc) == [ns EXCEPT ![o].doc = doc, ![o].typ = NoType]

\* o.doc = doc
SetObjectDoc(ns, o, doc) == [ns EXCEPT ![o].doc = doc]

\* the body of SetFieldDoc: make o.fields, make the field if absent, f.doc = doc
SetObjectFieldDoc(ns, o, fieldName, doc) ==
    LET f == IF fieldName \in DOMAIN ns[o].fields THEN ns[o].fields[fieldName]
             ELSE NewField(ns, o, fieldName)
    IN  [ns EXCEPT ![o].fields = MapSet(@, fieldName, [f EXCEPT !.doc = doc])]

\* mutant: documenting a method rebuilds its binding
SetMethodDocRebinds(mh, m, doc) == [mh EXCEPT ![m].doc = doc, ![m].callable = NilCallable]

\* m.doc = doc
SetMethodDoc(mh, m, doc) == [mh EXCEPT ![m].doc = doc]

\* m.requiresInstance = requires
SetMethodRequiresInstance(mh, m, requires) == [mh EXCEPT ![m].requiresInstance = requires]

DocCall(op, field, doc, requires) ==
    [Call(op, <<>>, NoType, NilActions, NotAFunc, "") EXCEPT !.id = doc]
        @@ [field |-> field, requires |-> requires]

CallSetter(t) ==
    /\ pc[t] = "idle" /\ calls.doc < MaxDocs
    /\ \/ \E doc \in Docs :
            /\ call' = [call EXCEPT ![t] = DocCall("SetDoc", "", doc, FALSE)]
            /\ pc' = [pc EXCEPT ![t] = "SetDoc"]
       \/ \E f \in FieldNames, doc \in Docs :
            /\ call' = [call EXCEPT ![t] = DocCall("SetFieldDoc", f, doc, FALSE)]
            /\ pc' = [pc EXCEPT ![t] = "SetFieldDoc"]
       \/ \E doc \in Docs :
            /\ call' = [call EXCEPT ![t] = DocCall("Method.SetDoc", "", doc, FALSE)]
            /\ pc' = [pc EXCEPT ![t] = "Method.SetDoc"]
       \/ \E requires \in BOOLEAN :
            /\ call' = [call EXCEPT ![t] = DocCall("SetRequiresInstance", "", "", requires)]
            /\ pc' = [pc EXCEPT ![t] = "SetRequiresInstance"]
    /\ calls' = [calls EXCEPT !.doc = @ + 1]
    /\ UNCHANGED <<nodes, mheap, typLookup, mu, c, idx, obj, mth, ret, get, regLog,
                   invoked, fatal, dispatch, frame>>

\* the setter returns its receiver
SetterReturns(t, r) ==
    /\ pc' = [pc EXCEPT ![t] = "done"]
    /\ ret' = [ret EXCEPT ![t] = r]
    /\ UNCHANGED <<typLookup, mu, call, c, idx, obj, mth, get, regLog, invoked,
                   fatal, calls, dispatch, frame>>

\* o.SetDoc(doc)
SetDoc(t) ==
    /\ pc[t] = "SetDoc"
    /\ nodes' = IF obj[t] = NoNode THEN nodes
                ELSE SetObjectDoc(nodes, obj[t], call[t].id)
    /\ SetterReturns(t, Ret(FALSE, obj[t], NilValue, NoErr))
    /\ UNCHANGED mheap

\* o.SetFieldDoc(fieldName, doc)
SetFieldDoc(t) ==
    /\ pc[t] = "SetFieldDoc"
    /\ nodes' = IF obj[t] = NoNode THEN nodes
                ELSE SetObjectFieldDoc(nodes, obj[t], call[t].field, call[t].id)
    /\ SetterReturns(t, Ret(FALSE, obj[t], NilValue, NoErr))
    /\ UNCHANGED mheap

\* m.SetDoc(doc)
MethodSetDoc(t) ==
    /\ pc[t] = "Method.SetDoc"
    /\ mheap' = IF mth[t] = NoMethod THEN mheap
                ELSE SetMethodDoc(mheap, mth[t], call[t].id)
    /\ SetterReturns(t, [Ret(FALSE, NoNode, NilValue, NoErr) EXCEPT !.meth = mth[t]])
    /\ UNCHANGED nodes

\* m.SetRequiresInstance(requires)
SetRequiresInstance(t) ==
    /\ pc[t] = "SetRequiresInstance"
    /\ mheap' = IF mth[t] = NoMethod THEN mheap
                ELSE SetMethodRequiresInstance(mheap, mth[t], call[t].requires)
    /\ SetterReturns(t, [Ret(FALSE, NoNode, NilValue, NoErr) EXCEPT !.meth = mth[t]])
    /\ UNCHANGED nodes

----------------------------------------------------------------------------
(* ById[T] and Object.ById *)

\* Fetch functions of the fetch workload: both documented conventions, with
\* the context first or last, and bodies returning a *T1, a string, a nil
\* interface, a nil *T1, or an error.
FetchFns ==
    { FetchById, FetchByArgs,
      GoFunc(<<"string", "ctx">>, "ptrT1"),
      GoFunc(<<"ctx", "string">>, "string"),
      GoFunc(<<"ctx", "structId">>, "nilany"),
      GoFunc(<<"ctx", "string">>, "nilptr"),
      GoFunc(<<"ctx", "string">>, "error") }

\* paths and record types of the fetch workload
FetchNames == { <<"a">>, <<"b">> }
FetchTypes == {T1, T2}

FetchActions ==
    {NilActions, ObjectActions(NilCallable)} \cup {ObjectActions(Func(f)) : f \in FetchFns}

CallById(t) ==
    /\ pc[t] = "idle" /\ calls.read < MaxReads
    /\ \E T \in TypeArgs, id \in Ids :
          call' = [call EXCEPT ![t] = Call("ById", <<>>, T, NilActions, NotAFunc, id)]
    /\ pc' = [pc EXCEPT ![t] = "RLock"]
    /\ calls' = [calls EXCEPT !.read = @ + 1]
    /\ UNCHANGED <<nodes, mheap, typLookup, mu, c, idx, obj, mth, ret, get, regLog,
                   invoked, fatal, dispatch, frame>>

CallObjectById(t) ==
    /\ pc[t] = "idle" /\ calls.read < MaxReads
    /\ \E id \in Ids :
          call' = [call EXCEPT ![t] = Call("Object.ById", <<>>, NoType, NilActions, NotAFunc, id)]
    /\ pc' = [pc EXCEPT ![t] = "ObjectById"]
    /\ calls' = [calls EXCEPT !.read = @ + 1]
    /\ UNCHANGED <<nodes, mheap, typLookup, mu, c, idx, obj, mth, ret, get, regLog,
                   invoked, fatal, dispatch, frame>>

\* the receiver of o.ById: GetByType's result inside ById[T], else the
\* caller's own *Object
Receiver(t) == IF call[t].op = "ById" THEN c[t] ELSE obj[t]

\* if o == nil { return nil, ErrUnknownType }
UnknownType(o) == o = NoNode

\* mutant: only o.Action is tested, a nil Fetch slot goes unnoticed
MissingActionOnly(ns, o) == ns[o].Action.isnil

\* if o.Action == nil || o.Action.Fetch == nil { return nil, ErrMissingAction }
MissingAction(ns, o) == ns[o].Action.isnil \/ ns[o].Action.Fetch.isnil

\* where o.ById returns to: into ById[T], or to the caller
AfterObjectById(t) == IF call[t].op = "ById" THEN "ByIdReturn" ELSE "done"

\* ById[T] after GetByType[T]() returned
ById(t) ==
    /\ pc[t] = "ById"
    /\ IF UnknownType(c[t])
       THEN /\ pc' = [pc EXCEPT ![t] = "done"]
            /\ ret' = [ret EXCEPT ![t] =
                          Ret(FALSE, NoNode, NilPtrValue(call[t].T), ErrUnknownType)]
       ELSE /\ pc' = [pc EXCEPT ![t] = "ObjectById"]
            /\ UNCHANGED ret
    /\ UNCHANGED <<nodes, mheap, typLookup, mu, call, c, idx, obj, mth, get, regLog,
                   invoked, fatal, calls, dispatch, frame>>

\* o.ById up to the call of Fetch; a nil receiver is a nil dereference
ObjectById(t) ==
    /\ pc[t] = "ObjectById"
    /\ LET o == Receiver(t)
       IN  IF o = NoNode
           THEN /\ pc' = [pc EXCEPT ![t] = "done"]
                /\ ret' = [ret EXCEPT ![t] = Ret(TRUE, NoNode, NilValue, NoErr)]
                /\ UNCHANGED get
           ELSE IF MissingAction(nodes, o)
           THEN /\ pc' = [pc EXCEPT ![t] = AfterObjectById(t)]
                /\ ret' = [ret EXCEPT ![t] = Ret(FALSE, NoNode, NilValue, ErrMissingAction)]
                /\ UNCHANGED get
           ELSE /\ pc' = [pc EXCEPT ![t] = "CallArg"]
                /\ get' = [get EXCEPT ![t] =
                             [fn |-> nodes[o].Action.Fetch,
                              arg |-> FetchArg(nodes[o].Action.Fetch, call[t].id)]]
                /\ UNCHANGED ret
    /\ UNCHANGED <<nodes, mheap, typLookup, mu, call, c, idx, obj, mth, regLog,
                   invoked, fatal, calls, dispatch, frame>>


\* get.CallArg(ctx, arg): bind, run the function, classify what it returned
FetchCallArg(t) ==
    /\ pc[t] = "CallArg"
    /\ LET r == CallArg(get[t].fn, get[t].arg)
       IN  /\ invoked' = IF r.ran
                         THEN [invoked EXCEPT ![t] = Invocation(@.n + 1, get[t].arg, r.seen)]
                         ELSE invoked
           /\ ret' = [ret EXCEPT ![t] = Ret(FALSE, NoNode, r.res.val, r.res.err)]
    /\ pc' = [pc EXCEPT ![t] = AfterObjectById(t)]
    /\ UNCHANGED <<nodes, mheap, typLookup, mu, call, c, idx, obj, mth, get, regLog,
                   fatal, calls, dispatch, frame>>

\* The registry calls a Fetch function makes from its body.
CallableOps ==
    { Call("Register", <<"b">>, T2, NilActions, NotAFunc, ""),
      Call("RegisterMethod", <<"a", ":", "m">>, NoType, NilActions, FetchById, ""),
      Call("Get", <<"a">>, NoType, NilActions, NotAFunc, ""),
      Call("GetByType", <<>>, T1, NilActions, NotAFunc, "") }

\* The Fetch function o.ById invoked calls Register, RegisterMethod, Get or
\* GetByType from its body: a call on the same goroutine, on top of the
\* suspended o.ById.
CallableCalls(t) ==
    /\ pc[t] = "CallArg" /\ ~frame[t].live /\ calls.nested < MaxNested
    /\ CallArg(get[t].fn, get[t].arg).ran
    /\ frame' = [frame EXCEPT ![t] = Frame(call[t], c[t], get[t])]
    /\ calls' = [calls EXCEPT !.nested = @ + 1]
    /\ \E op \in CallableOps :
          /\ call' = [call EXCEPT ![t] = op]
          /\ pc' = [pc EXCEPT ![t] =
                       IF op.op \in {"Register", "RegisterMethod"} THEN "Lock" ELSE "RLock"]
          /\ get' = IF op.op = "RegisterMethod"
                    THEN [get EXCEPT ![t].fn = Func(op.fn)] ELSE get
    /\ UNCHANGED <<nodes, mheap, typLookup, mu, c, idx, obj, mth, ret, regLog,
                   invoked, fatal, dispatch>>

\* The registry call made by the Fetch function is over: the function goes
\* on to its return, or the panic of the registry call unwinds o.ById too.
CallableResumes(t) ==
    /\ pc[t] = "done" /\ frame[t].live
    /\ call' = [call EXCEPT ![t] = frame[t].call]
    /\ c' = [c EXCEPT ![t] = frame[t].c]
    /\ get' = [get EXCEPT ![t] = frame[t].get]
    /\ frame' = [frame EXCEPT ![t] = NoFrame]
    /\ IF ret[t].panicked
       THEN /\ pc' = [pc EXCEPT ![t] = "done"]
            /\ ret' = [ret EXCEPT ![t] = Ret(TRUE, NoNode, NilValue, NoErr)]
       ELSE /\ pc' = [pc EXCEPT ![t] = "CallArg"]
            /\ ret' = [ret EXCEPT ![t] = NoRet]
    /\ UNCHANGED <<nodes, mheap, typLookup, mu, idx, obj, mth, regLog,
                   invoked, fatal, calls, dispatch>>

\* ById[T] after o.ById returned: pass the error on, assert the type
ByIdReturn(t) ==
    /\ pc[t] = "ByIdReturn"
    /\ LET r == ByIdResult(ret[t], call[t].T)
       IN  ret' = [ret EXCEPT ![t] = Ret(FALSE, NoNode, r.val, r.err)]
    /\ pc' = [pc EXCEPT ![t] = "done"]
    /\ UNCHANGED <<nodes, mheap, typLookup, mu, call, c, idx, obj, mth, get, regLog,
                   invoked, fatal, calls, dispatch, frame>>

----------------------------------------------------------------------------
(* The caller takes the result *)

ReturnsObject(op) ==
    op \in {"Register", "RegisterActions", "Get", "GetByType", "Root", "Child"}

ReturnsMethod(op) == op \in {"RegisterMethod", "Method"}

NoGet == [fn |-> NilCallable, arg |-> NilValue]

\* The call is over: the caller keeps the *Object or *Method it was handed
\* (nothing when the call panicked) and the frame is gone.
Return(t) ==
    /\ pc[t] = "done" /\ ~frame[t].live
    /\ pc' = [pc EXCEPT ![t] = "idle"]
    /\ obj' = [obj EXCEPT ![t] =
                 IF ReturnsObject(call[t].op) /\ ~ret[t].panicked THEN ret[t].node ELSE @]
    /\ mth' = [mth EXCEPT ![t] =
                 IF ReturnsMethod(call[t].op) /\ ~ret[t].panicked THEN ret[t].meth ELSE @]
    /\ call' = [call EXCEPT ![t] = NoCall]
    /\ ret' = [ret EXCEPT ![t] = NoRet]
    /\ c' = [c EXCEPT ![t] = NoNode]
    /\ idx' = [idx EXCEPT ![t] = 0]
    /\ get' = [get EXCEPT ![t] = NoGet]
    /\ invoked' = [invoked EXCEPT ![t] = NotInvoked]
    /\ UNCHANGED <<nodes, mheap, typLookup, mu, regLog, fatal, calls, dispatch, frame>>

----------------------------------------------------------------------------
(* Specifications *)

\* Every registry operation, issued by the callers in ts with record types
\* from types.
RegistryNext(ts, types) ==
    \E t \in ts :
          \/ CallRegister(t, ObjNames, types)
          \/ CallRegisterActions(t, ObjNames, types, RegActions)
          \/ CallRegisterMethod(t) \/ CallGet(t, ObjNames) \/ CallGetByType(t, types)
          \/ CallRoot(t)
          \/ CallAccessor(t)
          \/ Lock(t) \/ Unlock(t) \/ RLock(t) \/ RUnlock(t)
          \/ LookupRead(t) \/ LookupCreate(t)
          \/ Register(t) \/ RegisterActions(t) \/ RegisterMethod(t)
          \/ GetByType(t)
          \/ Child(t) \/ Children(t) \/ Method(t) \/ Methods(t) \/ Static(t)
          \/ Return(t)

\* The registry used by one caller: a call starts when the last one is over.
Next == RegistryNext({1}, TypeArgs) \/ CallAll(1) \/ All(1)

Spec == Init /\ [][Next]_vars

\* The registry used by all callers at once.
ConcNext == RegistryNext(Threads, {T1, T2})

ConcSpec == Init /\ [][ConcNext]_vars

\* The typed fetch helper, one caller: registrations followed by fetches.
FetchNext ==
    \E t \in {1} :
          \/ CallRegister(t, FetchNames, FetchTypes)
          \/ CallRegisterActions(t, FetchNames, FetchTypes, FetchActions)
          \/ CallGet(t, FetchNames) \/ CallGetByType(t, FetchTypes)
          \/ CallById(t) \/ CallObjectById(t)
          \/ Lock(t) \/ Unlock(t) \/ RLock(t) \/ RUnlock(t)
          \/ LookupRead(t) \/ LookupCreate(t)
          \/ Register(t) \/ RegisterActions(t)
          \/ GetByType(t) \/ ById(t) \/ ObjectById(t) \/ FetchCallArg(t) \/ ByIdReturn(t)
          \/ Return(t)

FetchSpec == Init /\ [][FetchNext]_vars

\* The registry of two record types with the documentation setters, one
\* caller.
DocNext ==
    \E t \in {1} :
          \/ CallRegister(t, ObjNames, {T1, T2})
          \/ CallRegisterActions(t, ObjNames, {T1, T2}, RegActions)
          \/ CallRegisterMethod(t) \/ CallGet(t, ObjNames) \/ CallGetByType(t, {T1, T2})
          \/ CallSetter(t)
          \/ Lock(t) \/ Unlock(t) \/ RLock(t) \/ RUnlock(t)
          \/ LookupRead(t) \/ LookupCreate(t)
          \/ Register(t) \/ RegisterActions(t) \/ RegisterMethod(t)
          \/ GetByType(t)
          \/ SetDoc(t) \/ SetFieldDoc(t) \/ MethodSetDoc(t) \/ SetRequiresInstance(t)
          \/ Return(t)

DocSpec == Init /\ [][DocNext]_vars

\* One step of caller t inside a call, the calls of its Fetch function
\* included.
ReentrantStep(t) ==
    \/ Lock(t) \/ Unlock(t) \/ RLock(t) \/ RUnlock(t)
    \/ LookupRead(t) \/ LookupCreate(t)
    \/ Register(t) \/ RegisterActions(t) \/ RegisterMethod(t) \/ GetByType(t)
    \/ ById(t) \/ ObjectById(t) \/ FetchCallArg(t) \/ ByIdReturn(t)
    \/ CallableCalls(t) \/ CallableResumes(t)
    \/ Return(t)

\* Caller 1 registers a type with its actions and fetches by id, with a Fetch
\* function that calls back into the registry; caller 2 registers and reads
\* at the same time.
ReentrantNext ==
    \/ \E t \in Threads : ReentrantStep(t)
    \/ CallRegisterActions(1, {<<"a">>}, {T1}, RegActions)
    \/ CallById(1) \/ CallObjectById(1)
    \/ CallRegister(2, {<<"a">>, <<"b">>}, {T2})
    \/ CallGet(2, {<<"a">>})

ReentrantSpec == Init /\ [][ReentrantNext]_vars

\* The registry under paths with empty segments, one caller.
PathNext ==
    \E t \in {1} :
          \/ CallRegister(t, PathNames, {T1, T2})
          \/ CallRegisterMethod(t)
          \/ CallGet(t, PathNames) \/ CallGetString(t) \/ CallRoot(t)
          \/ Lock(t) \/ Unlock(t) \/ RLock(t) \/ RUnlock(t)
          \/ LookupRead(t) \/ LookupCreate(t)
          \/ Register(t) \/ RegisterMethod(t)
          \/ Return(t)

PathSpec == Init /\ [][PathNext]_vars

----------------------------------------------------------------------------
(* StaticMethod (static.go): signature analysis and argument binding *)

\* Declared types of record fields: a string, an int, a pointer to a type
\* with a Scan method (*scannableObject), a type whose pointer has a Scan
\* method (scannableObject).
FieldTypes == {"string", "int", "ptrScan", "valScan"}

\* The record types data slots are declared with, by name: field -> type.
Fields(rec) ==
    CASE rec = "RecA"    -> [A |-> "string"]
      [] rec = "RecAB"   -> [A |-> "string", B |-> "int"]
      [] rec = "RecFooP" -> [Foo |-> "ptrScan"]
      [] rec = "RecFooV" -> [Foo |-> "valScan"]
      [] OTHER           -> <<>>

RecTypes == {"RecA", "RecAB", "RecFooP", "RecFooV"}

\* A Go value held by a field or a map entry: its dynamic type, its content
\* and, for a value filled in by Scan, the dynamic type Scan was handed.
FV(kind, v, of) == [kind |-> kind, v |-> v, of |-> of]
StrV(x) == FV("string", x, "")
IntV(x) == FV("int", x, "")

\* the zero value of a declared type
Zero(typ) ==
    CASE typ = "string"  -> StrV("")
      [] typ = "int"     -> IntV("0")
      [] typ = "ptrScan" -> FV("nil", "", "")
      [] OTHER           -> FV("valScan", "", "")

\* reflect.New(s.arg).Elem(): every field at its zero value
ZeroRecord(rec) == [f \in DOMAIN Fields(rec) |-> Zero(Fields(rec)[f])]

\* a function of the program: parameter kinds in order ("ctx", "struct",
\* "ptrstruct", "string"), the record type of its struct parameters, and
\* what its body returns
GoFuncRec(in, rec, out) == [isFunc |-> TRUE, in |-> in, rec |-> rec, out |-> out]
NotAFuncRec == [isFunc |-> FALSE, in |-> <<>>, rec |-> "none", out |-> "none"]

\* the descriptor Static starts from: &StaticMethod{fn: v, ctxPos: -1, argPos: -1, cnt: typ.NumIn()}
NewStaticMethod(fn) ==
    [panics |-> FALSE, fn |-> fn, cnt |-> Len(fn.in), ctxPos |-> -1, argPos |-> -1,
     arg |-> "none", argPtr |-> FALSE]

\* mutant: a second context parameter replaces the first
StaticParamLastCtx(res, in, i) ==
    IF in = "ctx" THEN [res EXCEPT !.ctxPos = i]
    ELSE IF in \in {"struct", "ptrstruct"}
    THEN (IF res.argPos # -1 THEN [res EXCEPT !.panics = TRUE]
          ELSE [res EXCEPT !.argPos = i, !.arg = res.fn.rec, !.argPtr = @ \/ in = "ptrstruct"])
    ELSE [res EXCEPT !.panics = TRUE]

\* Static's loop body for parameter i (0-based) of declared kind in
StaticParam(res, in, i) ==
    IF in = "ctx"
    THEN (IF res.ctxPos # -1 THEN [res EXCEPT !.panics = TRUE]
          ELSE [res EXCEPT !.ctxPos = i])
    ELSE IF in \in {"struct", "ptrstruct"}
    THEN (IF res.argPos # -1 THEN [res EXCEPT !.panics = TRUE]
          ELSE [res EXCEPT !.argPos = i, !.arg = res.fn.rec, !.argPtr = @ \/ in = "ptrstruct"])
    ELSE [res EXCEPT !.panics = TRUE]

RECURSIVE StaticLoop(_, _)
StaticLoop(res, i) ==
    IF res.panics \/ i >= res.cnt THEN res
    ELSE StaticLoop(StaticParam(res, res.fn.in[i + 1], i), i + 1)

\* Static(method) of static.go: panics on a non-function, a second context, a
\* second record and any other parameter type
StaticMethod(fn) ==
    IF ~fn.isFunc THEN [NewStaticMethod(fn) EXCEPT !.panics = TRUE]
    ELSE StaticLoop(NewStaticMethod(fn), 0)

ErrScan == "scan failed"
ErrMapKey == "map key must be a string"
ErrNotStruct == "arg must be a struct"
ErrJson == "json: cannot unmarshal"

\* srct.AssignableTo(dstt), srct.ConvertibleTo(dstt)
AssignableTo(srct, dstt) == srct = dstt
ConvertibleTo(srct, dstt) ==
    \/ srct = "int" /\ dstt = "string"
    \/ srct = "otherScan" /\ dstt = "valScan"

\* src.Convert(dstt): an int becomes the string of that code point
Convert(src) ==
    IF src.kind = "int" THEN FV("string", "rune " \o src.v, "")
    ELSE FV("valScan", src.v, "converted")

\* mutant: Scan is handed the value converted to a string
ScanArgConverted(src) == IF src.kind = "int" THEN Convert(src) ELSE src

\* src.Interface(): what Scan is handed
ScanArg(src) == src

\* what the Scan method leaves in the destination: a dump of what it was handed
Scanned(dstt, handed) == FV(dstt, handed.v, handed.kind)

\* what a field holds after a Scan that failed: the pointer that was
\* allocated for a nil pointer field, the value as it was otherwise
AfterFailedScan(dstt) == IF dstt = "ptrScan" THEN FV("ptrScan", "", "") ELSE Zero(dstt)

\* mutant: the Scan hook is tried before a conversion
assignValueToHookFirst(dstt, src, herr) ==
    IF AssignableTo(src.kind, dstt)
    THEN [err |-> NoErr, val |-> src, scans |-> <<>>]
    ELSE IF dstt \in {"ptrScan", "valScan"}
    THEN [err |-> herr,
          val |-> IF herr = NoErr THEN Scanned(dstt, ScanArg(src)) ELSE AfterFailedScan(dstt),
          scans |-> <<ScanArg(src)>>]
    ELSE IF ConvertibleTo(src.kind, dstt)
    THEN [err |-> NoErr, val |-> Convert(src), scans |-> <<>>]
    ELSE [err |-> ErrAssign, val |-> Zero(dstt), scans |-> <<>>]

\* assignValueTo(dst, src) for a destination of declared type dstt; herr is
\* what Scan returns if it is called. Gives the error, the destination's new
\* value and the values Scan was called with.
assignValueTo(dstt, src, herr) ==
    IF AssignableTo(src.kind, dstt)
    THEN [err |-> NoErr, val |-> src, scans |-> <<>>]
    ELSE IF ConvertibleTo(src.kind, dstt)
    THEN [err |-> NoErr, val |-> Convert(src), scans |-> <<>>]
    ELSE IF dstt \in {"ptrScan", "valScan"}
    THEN [err |-> herr,
          val |-> IF herr = NoErr THEN Scanned(dstt, ScanArg(src)) ELSE AfterFailedScan(dstt),
          scans |-> <<ScanArg(src)>>]
    ELSE [err |-> ErrAssign, val |-> Zero(dstt), scans |-> <<>>]

\* What a caller passes as arg: nil, a nil *struct, a struct or a pointer to
\* one (fields in declaration order), a map with string keys, a map with
\* other keys, a bare string.
Arg(kind, order, entries) == [kind |-> kind, order |-> order, entries |-> entries]
NilArg == Arg("nil", <<>>, <<>>)
NilPtrArg == Arg("nilptr", <<>>, <<>>)
StructArg(order, entries) == Arg("struct", order, entries)
PtrArg(order, entries) == Arg("ptrstruct", order, entries)
MapArg(entries) == Arg("map", <<>>, entries)
IntKeyMapArg == Arg("mapint", <<>>, <<>>)
ScalarArg == Arg("string", <<>>, <<>>)

\* the outcome of a dispatch: whether it panicked, how often the callable ran
\* and with what argument, the values Scan was called with, and what the
\* caller gets back
Outcome(panicked, ran, seen, scans, val, err) ==
    [panicked |-> panicked, ran |-> ran, seen |-> seen, scans |-> scans,
     val |-> val, err |-> err]

\* return nil, err before the callable is called
BindError(err, scans) == Outcome(FALSE, 0, <<>>, scans, NilValue, err)

\* s.parseResult(s.fn.Call(args))
Invoke(s, argVE, scans) ==
    LET r == parseResult(Returns(s.fn, ""), NilValue, NoErr)
    IN  Outcome(FALSE, 1, argVE, scans, r.val, r.err)

\* mutant: an assignment that fails is skipped like an unknown field
BindFieldLenient(rec, b, k, src, herr) ==
    IF k \notin DOMAIN Fields(rec) THEN b
    ELSE LET a == assignValueTo(Fields(rec)[k], src, herr)
         IN  [err |-> NoErr,
              argVE |-> IF a.err = NoErr THEN [b.argVE EXCEPT ![k] = a.val] ELSE b.argVE,
              scans |-> b.scans \o a.scans]

\* mutant: a key that names no field is a binding error
BindFieldStrict(rec, b, k, src, herr) ==
    IF k \notin DOMAIN Fields(rec) THEN [b EXCEPT !.err = ErrAssign]
    ELSE LET a == assignValueTo(Fields(rec)[k], src, herr)
         IN  [err |-> a.err,
              argVE |-> IF a.err = NoErr THEN [b.argVE EXCEPT ![k] = a.val] ELSE b.argVE,
              scans |-> b.scans \o a.scans]

\* one round of the struct / map loop: a name that is no field of the slot's
\* type is skipped, otherwise the value is assigned to the field
BindField(rec, b, k, src, herr) ==
    IF k \notin DOMAIN Fields(rec) THEN b
    ELSE LET a == assignValueTo(Fields(rec)[k], src, herr)
         IN  [err |-> a.err,
              argVE |-> IF a.err = NoErr THEN [b.argVE EXCEPT ![k] = a.val] ELSE b.argVE,
              scans |-> b.scans \o a.scans]

\* the loop over the input's fields or map entries, in the order keys; the
\* first error ends it
RECURSIVE BindFields(_, _, _, _, _)
BindFields(rec, b, keys, entries, herr) ==
    IF keys = <<>> \/ b.err # NoErr THEN b
    ELSE BindFields(rec, BindField(rec, b, Head(keys), entries[Head(keys)], herr),
                    Tail(keys), entries, herr)

\* (s *StaticMethod) CallArg(ctx, arg) of static.go; keys is the order in
\* which a map argument is iterated
StaticCallArg(s, arg, keys, herr) ==
    IF s.argPos = -1 THEN Invoke(s, <<>>, <<>>)
    ELSE IF arg.kind = "nilptr"
    THEN Outcome(TRUE, 0, <<>>, <<>>, NilValue, NoErr)
    ELSE IF arg.kind \in {"struct", "ptrstruct", "map"}
    THEN LET b == BindFields(s.arg,
                             [err |-> NoErr, argVE |-> ZeroRecord(s.arg), scans |-> <<>>],
                             IF arg.kind = "map" THEN keys ELSE arg.order,
                             arg.entries, herr)
         IN  IF b.err # NoErr THEN BindError(b.err, b.scans)
             ELSE Invoke(s, b.argVE, b.scans)
    ELSE IF arg.kind = "mapint" THEN BindError(ErrMapKey, <<>>)
    ELSE BindError(ErrNotStruct, <<>>)

\* args, the argument vector of static.go's CallArg when it reaches
\* s.fn.Call(args), position by position: the context, the bound record, or
\* the zero reflect.Value make() left there; empty when CallArg returned
\* before the call. r is the outcome of the CallArg.
CallArgVector(s, arg, r) ==
    IF r.ran = 1 \/ (s.argPos # -1 /\ arg.kind = "nilptr")
    THEN [i \in 1..s.cnt |->
            IF i - 1 = s.ctxPos THEN "ctx"
            ELSE IF i - 1 = s.argPos /\ arg.kind # "nilptr" THEN "arg"
            ELSE "zero"]
    ELSE <<>>

\* args of part_008's CallArg when it reaches s.fn.Call(args): the loop over
\* argPos has filled every data position
FuncArgVector(s, r) ==
    IF r.ran = 1
    THEN [i \in 1..s.cnt |->
            IF i - 1 = s.ctxPos THEN "ctx"
            ELSE IF \E k \in 1..Len(s.argPos) : s.argPos[k] = i - 1 THEN "arg"
            ELSE "zero"]
    ELSE <<>>

\* ctx.Value("input_json"): absent, a document, or bytes that do not parse
Payload(present, valid, entries) == [present |-> present, valid |-> valid, entries |-> entries]
NoPayload == Payload(FALSE, FALSE, <<>>)
BadPayload == Payload(TRUE, FALSE, <<>>)

\* json.Unmarshal(input, argV.Interface()): keys that name no field are
\* skipped, a value of another type than the field's is an error
Unmarshal(rec, input) ==
    IF ~input.valid THEN [err |-> ErrJson, argVE |-> ZeroRecord(rec)]
    ELSE IF \E k \in DOMAIN input.entries \cap DOMAIN Fields(rec) :
                input.entries[k].kind # Fields(rec)[k]
    THEN [err |-> ErrJson, argVE |-> ZeroRecord(rec)]
    ELSE [err |-> NoErr,
          argVE |-> [f \in DOMAIN Fields(rec) |->
                        IF f \in DOMAIN input.entries THEN input.entries[f]
                        ELSE Zero(Fields(rec)[f])]]

\* (s *StaticMethod) Call(ctx) of static.go
StaticCall(s, input) ==
    IF s.argPos = -1 THEN Invoke(s, <<>>, <<>>)
    ELSE IF ~input.present THEN Invoke(s, ZeroRecord(s.arg), <<>>)
    ELSE LET d == Unmarshal(s.arg, input)
         IN  IF d.err # NoErr THEN BindError(d.err, <<>>)
             ELSE Invoke(s, d.argVE, <<>>)

\* (s *StaticMethod) CallArg(ctx) of part_008 with no argument: arg[argN] of
\* an empty list is an index out of range when there is a data slot
CallArgNone(s) ==
    IF Len(s.argPos) > 0 THEN Outcome(TRUE, 0, <<>>, <<>>, NilValue, NoErr)
    ELSE LET r == parseResult(Returns(s.fn, ""), NilValue, NoErr)
         IN  Outcome(FALSE, 1, <<>>, <<>>, r.val, r.err)

\* (s *StaticMethod) CallArg(ctx, arg) of part_008 with one argument: once
\* it is bound to the first data slot, a second data slot reads arg[1], an
\* index out of range
CallArgOne(s, arg) ==
    LET r == CallArg(s, arg)
    IN  IF Len(s.argPos) > 1 /\ r.ran
        THEN Outcome(TRUE, 0, <<>>, <<>>, NilValue, NoErr)
        ELSE Outcome(FALSE, IF r.ran THEN 1 ELSE 0, <<>>, <<>>, r.res.val, r.res.err)

\* the type arguments of Call[T]
CallTypes == {"string", "ptrT1"}

\* res.(T)
IsT(res, T) ==
    \/ T = "string" /\ res.kind = "string"
    \/ T = "ptrT1" /\ res.kind = "ptr" /\ res.typ = PtrTo(T1)

\* reflect.New(reflect.TypeFor[T]()).Elem().Interface().(T)
ZeroOf(T) == IF T = "string" THEN StringValue("") ELSE NilPtrValue(T1)

\* Call[T](s, ctx, arg...) of part_008 on the outcome of s.CallArg
CallT(r, T) ==
    IF r.panicked THEN r
    ELSE IF IsT(r.val, T) THEN r
    ELSE [r EXCEPT !.val = ZeroOf(T), !.err = NoErr]

----------------------------------------------------------------------------
(* The dispatching caller *)

\* functions handed to Static of static.go
StaticFns ==
    { GoFuncRec(<<>>, "none", "string"),
      GoFuncRec(<<"struct">>, "RecA", "string"),
      GoFuncRec(<<"ctx", "struct">>, "RecAB", "string"),
      GoFuncRec(<<"ptrstruct", "ctx">>, "RecA", "error"),
      GoFuncRec(<<"struct">>, "RecFooP", "string"),
      GoFuncRec(<<"struct">>, "RecFooV", "nilany"),
      GoFuncRec(<<"ctx", "struct">>, "RecA", "erroronly"),
      GoFuncRec(<<"ctx", "struct", "ctx">>, "RecA", "string"),
      GoFuncRec(<<"struct", "struct">>, "RecA", "string"),
      GoFuncRec(<<"string">>, "none", "string"),
      GoFuncRec(<<>>, "none", "errnil"),
      GoFuncRec(<<"ctx">>, "none", "twovals"),
      GoFuncRec(<<>>, "none", "none"),
      NotAFuncRec }

\* functions handed to Static of part_008
FuncFns ==
    { GoFunc(<<>>, "string"), FetchById, FetchByArgs,
      GoFunc(<<"ctx", "string">>, "error"),
      GoFunc(<<"string">>, "nilany"),
      GoFunc(<<"ctx", "string">>, "erroronly"),
      GoFunc(<<"ctx", "ctx", "string">>, "string"),
      GoFunc(<<"ctx", "string", "string">>, "string"),
      NotAFunc }

\* arguments handed to CallArg of static.go
Args ==
    { NilArg, NilPtrArg, IntKeyMapArg, ScalarArg,
      MapArg([A |-> StrV("x")]),
      MapArg([Z |-> StrV("y")]),
      MapArg([A |-> StrV("x"), Z |-> StrV("y")]),
      MapArg([A |-> IntV("7")]),
      MapArg([A |-> StrV("x"), B |-> StrV("bad")]),
      MapArg([Foo |-> StrV("Hello")]),
      MapArg([Foo |-> IntV("7")]),
      StructArg(<<"A">>, [A |-> StrV("world")]),
      PtrArg(<<"A", "B">>, [A |-> StrV("x"), B |-> IntV("7")]) }

\* what Scan returns when it is called
ScanErrs == {NoErr, ErrScan}

\* input_json values in the context handed to Call
Payloads ==
    { NoPayload, BadPayload,
      Payload(TRUE, TRUE, [A |-> StrV("x")]),
      Payload(TRUE, TRUE, [A |-> IntV("7")]),
      Payload(TRUE, TRUE, [Z |-> StrV("y")]) }

\* arguments handed to CallArg and Call[T] of part_008: none, or one
NoArgs == [given |-> FALSE, val |-> NilValue]
OneArg(v) == [given |-> TRUE, val |-> v]
FuncArgs == {NoArgs, OneArg(StringValue("id1")), OneArg(StructId("id1")), OneArg(NilValue)}

DCall(op, fn, arg, keys, herr, input, T) ==
    [op |-> op, fn |-> fn, arg |-> arg, keys |-> keys, herr |-> herr, input |-> input,
     T |-> T]

NoSm == [built |-> FALSE]
NoDCall == [op |-> "none"]
NoDRes == [op |-> "none"]

\* st := Static(fn), static.go
DoStatic ==
    /\ dpc = "idle"
    /\ \E fn \in StaticFns :
          /\ dcall' = DCall("Static", fn, NilArg, <<>>, NoErr, NoPayload, "none")
          /\ IF StaticMethod(fn).panics
             THEN /\ dres' = Outcome(TRUE, 0, <<>>, <<>>, NilValue, NoErr)
                  /\ dpc' = "done"
                  /\ UNCHANGED sm
             ELSE /\ sm' = [built |-> TRUE, ver |-> "static.go", s |-> StaticMethod(fn)]
                  /\ dpc' = "ready"
                  /\ UNCHANGED dres
    /\ UNCHANGED registryVars

\* st := Static(fn), part_008
DoFunc ==
    /\ dpc = "idle"
    /\ \E fn \in FuncFns :
          /\ dcall' = DCall("Func", fn, NilArg, <<>>, NoErr, NoPayload, "none")
          /\ IF FuncPanics(fn)
             THEN /\ dres' = Outcome(TRUE, 0, <<>>, <<>>, NilValue, NoErr)
                  /\ dpc' = "done"
                  /\ UNCHANGED sm
             ELSE /\ sm' = [built |-> TRUE, ver |-> "part_008", s |-> Func(fn)]
                  /\ dpc' = "ready"
                  /\ UNCHANGED dres
    /\ UNCHANGED registryVars

Ready(ver) == dpc = "ready" /\ sm.built /\ sm.ver = ver

\* st.CallArg(ctx, arg), static.go
DoCallArg ==
    /\ Ready("static.go")
    /\ \E arg \in Args, herr \in ScanErrs :
          \E keys \in (IF arg.kind = "map" THEN RangeKeys(arg.entries) ELSE {<<>>}) :
              /\ dcall' = DCall("CallArg", sm.s.fn, arg, keys, herr, NoPayload, "none")
              /\ dres' = StaticCallArg(sm.s, arg, keys, herr) @@
                          [args |-> CallArgVector(sm.s, arg,
                                                  StaticCallArg(sm.s, arg, keys, herr))]
    /\ dpc' = "done"
    /\ UNCHANGED <<sm, registryVars>>

\* st.Call(ctx), static.go
DoCall ==
    /\ Ready("static.go")
    /\ \E input \in Payloads :
          /\ dcall' = DCall("Call", sm.s.fn, NilArg, <<>>, NoErr, input, "none")
          /\ dres' = StaticCall(sm.s, input)
    /\ dpc' = "done"
    /\ UNCHANGED <<sm, registryVars>>

\* st.CallArg(ctx, arg...), part_008
FuncCallArg(s, a) == IF a.given THEN CallArgOne(s, a.val) ELSE CallArgNone(s)

DoFuncCallArg ==
    /\ Ready("part_008")
    /\ \E a \in FuncArgs :
          /\ dcall' = DCall("FuncCallArg", sm.s.fn, a, <<>>, NoErr, NoPayload, "none")
          /\ dres' = FuncCallArg(sm.s, a) @@
                      [args |-> FuncArgVector(sm.s, FuncCallArg(sm.s, a))]
    /\ dpc' = "done"
    /\ UNCHANGED <<sm, registryVars>>

\* Call[T](st, ctx, arg...), part_008
DoCallT ==
    /\ Ready("part_008")
    /\ \E a \in FuncArgs, T \in CallTypes :
          /\ dcall' = DCall("Call[T]", sm.s.fn, a, <<>>, NoErr, NoPayload, T)
          /\ dres' = CallT(FuncCallArg(sm.s, a), T)
    /\ dpc' = "done"
    /\ UNCHANGED <<sm, registryVars>>

\* input_json values in the context handed to Call of part_008: absent, bytes
\* that do not parse, a document that decodes to val (a string, an object, an
\* array of two strings)
FuncPayload(present, valid, val) == [present |-> present, valid |-> valid, val |-> val]
ListValue == Value("list", NoType, FALSE, "id1,id2")
FuncPayloads ==
    { FuncPayload(FALSE, FALSE, NilValue), FuncPayload(TRUE, FALSE, NilValue),
      FuncPayload(TRUE, TRUE, StringValue("id1")), FuncPayload(TRUE, TRUE, StructId("id1")),
      FuncPayload(TRUE, TRUE, ListValue) }

\* json.Unmarshal into reflect.New(s.arg[0]): a document of another shape
\* than the slot's type is an error
FuncUnmarshalFails(s, input) ==
    \/ ~input.valid
    \/ input.val.kind = "list"
    \/ (s.arg[1] = "string") # (input.val.kind = "string")

\* (s *StaticMethod) Call(ctx) of part_008: the payload is decoded into a new
\* value of the first data slot's type; argV, a pointer, is never a []any, so
\* CallArg is handed this one value whatever the number of data slots
FuncCall(s, input) ==
    IF Len(s.argPos) > 0 /\ input.present
    THEN (IF FuncUnmarshalFails(s, input) THEN BindError(ErrJson, <<>>)
          ELSE CallArgOne(s, input.val))
    ELSE CallArgNone(s)

\* st.Call(ctx), part_008
DoFuncCall ==
    /\ Ready("part_008")
    /\ \E input \in FuncPayloads :
          /\ dcall' = DCall("FuncCall", sm.s.fn, NilArg, <<>>, NoErr, input, "none")
          /\ dres' = FuncCall(sm.s, input)
    /\ dpc' = "done"
    /\ UNCHANGED <<sm, registryVars>>

\* source values handed to assignValueTo: a string, an int, a
\* *scannableObject, a scannableObject, a value of a type defined as
\* scannableObject (convertible to it, not assignable)
AssignSrcs ==
    { StrV("x"), IntV("7"), FV("ptrScan", "p", "string"), FV("valScan", "v", "string"),
      FV("otherScan", "o", "string") }

\* assignValueTo(dst, src) on a field of a fresh record
DoAssign ==
    /\ dpc = "idle"
    /\ \E dstt \in FieldTypes, src \in AssignSrcs, herr \in ScanErrs :
          /\ dcall' = [op |-> "assignValueTo", dstt |-> dstt, src |-> src, herr |-> herr]
          /\ dres' = assignValueTo(dstt, src, herr)
    /\ dpc' = "done"
    /\ UNCHANGED <<sm, registryVars>>

\* the caller is done with the StaticMethod
DispatchReturn ==
    /\ dpc = "done"
    /\ dpc' = "idle"
    /\ sm' = NoSm
    /\ dcall' = NoDCall
    /\ dres' = NoDRes
    /\ UNCHANGED registryVars

DispatchNext ==
    \/ DoStatic \/ DoFunc \/ DoCallArg \/ DoCall \/ DoFuncCallArg \/ DoFuncCall \/ DoCallT
    \/ DoAssign \/ DispatchReturn

DispatchSpec == Init /\ [][DispatchNext]_vars

----------------------------------------------------------------------------
(* Properties of the registry (Spec) *)

Done(t, op) == pc[t] = "done" /\ call[t].op = op

\* the step in which Register / RegisterActions decides, for thread t
Decides(t) == pc[t] \in {"Register", "RegisterActions"} /\ pc'[t] = "Unlock"

\* C1: once Register[T](p) has succeeded for a record type T, and whatever
\* registrations follow, Get(p) returns the node Register returned, it is not
\* nil, and its New() is a pointer to T.
C1_RegisterThenGetNew ==
    \A k \in 1..Len(regLog) :
        LET e == regLog[k]
            o == lookup(nodes, e.name)
        IN  e.T.ptr = 0 =>
              /\ o # NoNode
              /\ o = e.node
              /\ New(nodes, o) = PtrTo(e.T)
              /\ \A t \in Threads :
                    Done(t, "Get") /\ call[t].name = e.name => ret[t].node = o

\* C1 witness: a Get of the first registered path has returned its node after
\* a second registration succeeded.
C1_Witness ==
    \E t \in Threads :
        /\ Done(t, "Get") /\ Len(regLog) >= 2
        /\ regLog[1].name = call[t].name /\ regLog[1].T.ptr = 0
        /\ ret[t].node = regLog[1].node /\ ret[t].node # NoNode
        /\ New(nodes, ret[t].node) = PtrTo(regLog[1].T)

\* C2: a Register[T2](p) or RegisterActions[T2](p, a) that finds a record
\* type other than T2 on the terminal node panics.
C2_DifferentTypePanics ==
    [][\A t \in Threads :
          Decides(t) /\ nodes[c[t]].typ \notin {NoType, TypeOfArg(call[t].T)}
            => ret'[t].panicked]_vars

\* C2 witness: RegisterActions has panicked on a node of another type.
C2_Witness ==
    \E t \in Threads :
        /\ pc[t] = "Unlock" /\ call[t].op = "RegisterActions" /\ ret[t].panicked
        /\ nodes[c[t]].typ \notin {NoType, TypeOfArg(call[t].T)}

\* C3 (as claimed): a Register[T1](p) that finds the same record type T1 on
\* the terminal node raises no error and leaves the registry as it was.
C3_SameTypeIsIdempotent ==
    [][\A t \in Threads :
          pc[t] = "Register" /\ pc'[t] = "Unlock"
          /\ nodes[c[t]].typ = TypeOfArg(call[t].T)
            => ~ret'[t].panicked /\ nodes' = nodes /\ typLookup' = typLookup]_vars

\* the node GetByType[T]() returns
ByType(T) == TypLookupGet(typLookup, TypeOfArg(T))

\* C4 (as claimed): for every path p on which a registration of T succeeded,
\* GetByType[T]() is the node Get(p) returns.
C4_ByTypeIsByPath ==
    \A k \in 1..Len(regLog) : ByType(regLog[k].T) = lookup(nodes, regLog[k].name)

\* the k-th registration is the latest one of its record type
LatestOfType(k) ==
    \A j \in (k+1)..Len(regLog) : TypeOfArg(regLog[j].T) # TypeOfArg(regLog[k].T)

\* C4 (amended): for the path p of the latest successful registration of T,
\* GetByType[T]() is the node Get(p) returns, and it is not nil.
C4_ByTypeIsLatestPath ==
    \A k \in 1..Len(regLog) :
        LatestOfType(k) =>
           /\ ByType(regLog[k].T) = lookup(nodes, regLog[k].name)
           /\ ByType(regLog[k].T) # NoNode
           /\ \A t \in Threads :
                 Done(t, "GetByType") /\ TypeOfArg(call[t].T) = TypeOfArg(regLog[k].T)
                    => ret[t].node = regLog[k].node

\* C4 witness: one record type registered under two paths, and GetByType has
\* returned the node of the second.
C4_Witness ==
    \E t \in Threads :
        /\ Done(t, "GetByType") /\ Len(regLog) = 2
        /\ TypeOfArg(regLog[1].T) = TypeOfArg(regLog[2].T)
        /\ TypeOfArg(call[t].T) = TypeOfArg(regLog[2].T)
        /\ ret[t].node = regLog[2].node /\ ret[t].node # regLog[1].node

\* the name has no ':' at all
NoColon(name) == \A k \in 1..Len(name) : name[k] # ":"

\* k is the place of the first ':' of the name
FirstColon(name, k) == name[k] = ":" /\ \A j \in 1..(k-1) : name[j] # ":"

\* C10: RegisterMethod(name, fn) panics when the name has no ':' or fn is not
\* a function (or has two context parameters); otherwise the method is bound
\* on the node whose path is the text before the first ':' under the name
\* that is the text after it.
C10_MethodNameSplit ==
    \A t \in Threads :
        Done(t, "RegisterMethod") =>
            LET name == call[t].name
                fn   == call[t].fn
            IN  /\ ret[t].panicked <=>
                      \/ NoColon(name) \/ ~fn.isFunc
                      \/ Cardinality({k \in 1..Len(fn.in) : fn.in[k] = "ctx"}) > 1
                /\ ~ret[t].panicked =>
                      \E k \in 1..Len(name) :
                          /\ FirstColon(name, k)
                          /\ LET o == lookup(nodes, SubSeq(name, 1, k - 1))
                                 m == SubSeq(name, k + 1, Len(name))
                             IN  /\ o # NoNode
                                 /\ ret[t].meth # NoMethod
                                 /\ mheap[ret[t].meth].object = o
                                 /\ mheap[ret[t].meth].name = m
                                 /\ m \in DOMAIN nodes[o].methods
                                 /\ nodes[o].methods[m] = ret[t].meth

\* C10 witness: "a:m:n" has been registered as method "m:n" of node "a".
C10_Witness ==
    \E t \in Threads :
        /\ Done(t, "RegisterMethod") /\ ~ret[t].panicked
        /\ call[t].name = <<"a", ":", "m", ":", "n">>
        /\ mheap[ret[t].meth].name = <<"m", ":", "n">>
        /\ mheap[ret[t].meth].object = lookup(nodes, <<"a">>)

----------------------------------------------------------------------------
(* Properties of ById (FetchSpec) *)

\* the node the type index holds for T, and its Fetch slot
Indexed(T) == TypeOfArg(T) \in DOMAIN typLookup
NodeOfType(T) == typLookup[TypeOfArg(T)]
NoFetch(o) == nodes[o].Action.isnil \/ nodes[o].Action.Fetch.isnil

Fetched(t) ==
    parseResult(Returns(nodes[NodeOfType(call[t].T)].Action.Fetch.fn, invoked[t].seen),
                NilValue, NoErr)

\* v is a pointer to T (a nil pointer of that type included)
IsStarT(v, T) == v.kind = "ptr" /\ v.typ = [base |-> T.base, ptr |-> T.ptr + 1]

\* C8: when Fetch completed without error, ById[T] returns a nil *T and a
\* non-nil type-mismatch error if what Fetch returned is not a *T (an untyped
\* nil included), and returns it unchanged with a nil error exactly when it
\* is a *T.
C8_TypeAssertion ==
    \A t \in Threads :
        Done(t, "ById") /\ Indexed(call[t].T) /\ invoked[t].n = 1
        /\ Fetched(t).err = NoErr =>
            /\ ~IsStarT(Fetched(t).val, call[t].T)
                  => ret[t].err = ErrBadType /\ ret[t].val = NilPtrValue(call[t].T)
            /\ IsStarT(Fetched(t).val, call[t].T)
                  => ret[t].err = NoErr /\ ret[t].val = Fetched(t).val
            /\ ret[t].err = NoErr <=> IsStarT(Fetched(t).val, call[t].T)

\* C8 witness: Fetch returned an untyped nil without error and ById[T]
\* answered with the type-mismatch error.
C8_Witness ==
    \E t \in Threads :
        /\ Done(t, "ById") /\ Indexed(call[t].T) /\ invoked[t].n = 1
        /\ Fetched(t) = [val |-> NilValue, err |-> NoErr]
        /\ ret[t].err = ErrBadType /\ ret[t].val = NilPtrValue(call[t].T)

\* the *Object whose ById is running for thread t
ByIdReceiver(t) ==
    IF call[t].op = "ById"
    THEN (IF Indexed(call[t].T) THEN NodeOfType(call[t].T) ELSE NoNode)
    ELSE obj[t]

\* the declared type of the first parameter of fn that is not a context
FirstDataParam(fn) ==
    LET ks == {k \in 1..Len(fn.in) : fn.in[k] # "ctx"}
    IN  IF ks = {} THEN "none" ELSE fn.in[CHOOSE k \in ks : \A j \in ks : k <= j]

\* o.ById has returned from its call of Fetch
FetchReturned(t) ==
    /\ call[t].op \in {"ById", "Object.ById"}
    /\ pc[t] \in {"ByIdReturn", "done"}
    /\ ~ret[t].panicked
    /\ ByIdReceiver(t) # NoNode
    /\ ~NoFetch(ByIdReceiver(t))

----------------------------------------------------------------------------
(* Concurrent registration (RegisterSpec) *)

\* paths and record types the concurrent callers register
RegNames == { <<"a">>, <<"a", "/", "b">>, <<"a", "/", "c">>,
              <<"a", "/", "b", "/", "c">>, <<"b">> }
RegTypes == {T1, T2, T3}

\* a fresh registry and one goroutine per thread entering Register[T](name),
\* the names pairwise distinct and the types pairwise distinct
RegisterInit ==
    /\ nodes = <<NewObject(NoNode, <<>>)>>
    /\ mheap = <<>>
    /\ typLookup = EmptyMap
    /\ mu = [writer |-> NoThread, readers |-> {}]
    /\ call \in { f \in [Threads -> { Call("Register", n, T, NilActions, NotAFunc, "") :
                                        n \in RegNames, T \in RegTypes }] :
                    \A t, u \in Threads :
                        t # u => f[t].name # f[u].name /\ f[t].T # f[u].T }
    /\ pc = [t \in Threads |-> "Lock"]
    /\ c = [t \in Threads |-> NoNode]
    /\ idx = [t \in Threads |-> 0]
    /\ obj = [t \in Threads |-> NoNode]
    /\ mth = [t \in Threads |-> NoMethod]
    /\ ret = [t \in Threads |-> NoRet]
    /\ get = [t \in Threads |-> NoGet]
    /\ regLog = <<>>
    /\ invoked = [t \in Threads |-> NotInvoked]
    /\ fatal = FALSE
    /\ calls = [reg |-> 0, read |-> 0, doc |-> 0, nested |-> 0]
    /\ frame = [t \in Threads |-> NoFrame]
    /\ DispatchInit

RegisterNext ==
    \E t \in Threads :
        \/ Lock(t) \/ LookupRead(t) \/ LookupCreate(t) \/ Register(t) \/ Unlock(t)

\* the scheduler runs a goroutine that can take a step
RegisterSpec == RegisterInit /\ [][RegisterNext]_vars /\ WF_vars(RegisterNext)

\* every Register call has returned or panicked
AllDone == \A t \in Threads : pc[t] = "done"

\* every path and every type resolves to the node its Register returned
AllResolve ==
    \A t \in Threads :
        /\ ~ret[t].panicked
        /\ ret[t].node # NoNode
        /\ lookup(nodes, call[t].name) = ret[t].node
        /\ nodes[ret[t].node].typ = call[t].T
        /\ call[t].T \in DOMAIN typLookup
        /\ typLookup[call[t].T] = ret[t].node
        /\ \A u \in Threads : u # t => ret[u].node # ret[t].node

\* no path segment exists twice: every node is the child its parent holds
\* under its name
NoNodeTwice ==
    \A n \in 2..Len(nodes) :
        /\ nodes[n].name \in DOMAIN nodes[nodes[n].parent].children
        /\ nodes[nodes[n].parent].children[nodes[n].name] = n

\* C5: N threads registering distinct paths with distinct types at once all
\* complete, after which every path and type resolves to its own node; no
\* entry is lost and no intermediate node is ever created twice.
C5_ConcurrentRegister ==
    /\ [](NoNodeTwice /\ (AllDone => AllResolve))
    /\ <>AllDone

\* C5 witness: two threads have registered paths under the same parent, which
\* one of them created, and both paths resolve.
C5_Witness ==
    /\ AllDone /\ AllResolve
    /\ \E t, u \in Threads :
          /\ t # u
          /\ Len(call[t].name) > 1 /\ Len(call[u].name) > 1
          /\ nodes[ret[t].node].parent = nodes[ret[u].node].parent
          /\ nodes[ret[t].node].parent # root

----------------------------------------------------------------------------
(* Locking discipline (ConcSpec) *)

\* C6 (as claimed): no read of a node's children or methods map, those of
\* the accessors Child, Children, Method, Methods and Static included, ever
\* overlaps a write of that map.
C6_ReadsNeverOverlapWrites ==
    \A n \in 1..Len(nodes) :
        /\ ChildrenWriters(n) # {} => ChildrenReaders(n) = {}
        /\ MethodsWriters(n) # {} => MethodsReaders(n) = {}

----------------------------------------------------------------------------
(* Method bindings (Spec) *)

\* the registrations of method name m on node o, in the order they were made
BindingsOf(o, m) == {k \in 1..Len(mheap) : mheap[k].object = o /\ mheap[k].name = m}

\* the most recent of them
LastBinding(o, m) == CHOOSE k \in BindingsOf(o, m) : \A j \in BindingsOf(o, m) : j <= k

\* how often name m occurs in the list res
Occurrences(res, m) == Cardinality({i \in 1..Len(res) : res[i] = m})

\* C11: RegisterMethod with a valid name and callable succeeds also when
\* the node has a binding of that name, which it replaces: afterwards Method
\* and Static of the node give the binding of the most recent registration,
\* and Methods lists the name exactly once.
C11_MethodOverwrite ==
    /\ \A o \in 1..Len(nodes) : \A m \in DOMAIN nodes[o].methods :
          BindingsOf(o, m) # {} /\ nodes[o].methods[m] = LastBinding(o, m)
    /\ \A k \in 1..Len(mheap) : mheap[k].name \in DOMAIN nodes[mheap[k].object].methods
    /\ \A t \in Threads :
          /\ Done(t, "RegisterMethod") /\ ~NoColon(call[t].name) /\ call[t].fn.isFunc
                => ~ret[t].panicked /\ ret[t].meth = Len(mheap)
          /\ obj[t] # NoNode /\ BindingsOf(obj[t], call[t].name) # {} =>
                /\ Done(t, "Method") => ret[t].meth = LastBinding(obj[t], call[t].name)
                /\ Done(t, "Static") =>
                      ret[t].callable = mheap[LastBinding(obj[t], call[t].name)].callable
          /\ obj[t] # NoNode /\ Done(t, "Methods") =>
                \A k \in 1..Len(mheap) :
                    mheap[k].object = obj[t] => Occurrences(ret[t].names, mheap[k].name) = 1

\* C11 witness: a name was bound twice on one node, to different functions,
\* and Static has returned the second one.
C11_Witness ==
    \E t \in Threads :
        /\ Done(t, "Static") /\ obj[t] # NoNode
        /\ Cardinality(BindingsOf(obj[t], call[t].name)) = 2
        /\ mheap[1].callable # mheap[2].callable
        /\ ret[t].callable = mheap[2].callable

----------------------------------------------------------------------------
(* Get (Spec) *)

\* the registry: tree, methods, actions and type index
registry == <<nodes, mheap, typLookup>>

\* the nodes reached from the root by the first k segments of pa form a chain
\* of children
Reaches(pa, k, n) ==
    \E ch \in [0..k -> 1..Len(nodes)] :
        /\ ch[0] = root /\ ch[k] = n
        /\ \A i \in 1..k : /\ pa[i] \in DOMAIN nodes[ch[i-1]].children
                           /\ nodes[ch[i-1]].children[pa[i]] = ch[i]

\* every segment of the path p is in the tree
AllSegmentsPresent(p) ==
    \E n \in 1..Len(nodes) : Reaches(Split(p, "/"), Len(Split(p, "/")), n)

\* a step of a Get call of thread t
GetStep(t) == call[t].op = "Get" \/ call'[t].op = "Get"

\* C12: no step of Get(path) creates or changes a node, a method, an action
\* or a type-index entry, and Get returns nil exactly when a segment of path
\* is missing from the tree, otherwise the node the path leads to.
C12_GetIsPure ==
    /\ [][\A t \in Threads : GetStep(t) => registry' = registry]_vars
    /\ [](\A t \in Threads :
             Done(t, "Get") =>
                /\ ret[t].node = NoNode <=> ~AllSegmentsPresent(call[t].name)
                /\ ret[t].node # NoNode =>
                      Reaches(Split(call[t].name, "/"), Len(Split(call[t].name, "/")),
                              ret[t].node))

\* C12 witness: Get("a/b") has returned nil while "a" is in the tree and has
\* no child "b".
C12_Witness ==
    \E t \in Threads :
        /\ Done(t, "Get") /\ call[t].name = <<"a", "/", "b">>
        /\ \E n \in 1..Len(nodes) :
              Reaches(<< <<"a">> >>, 1, n) /\ <<"b">> \notin DOMAIN nodes[n].children
        /\ ret[t].node = NoNode

----------------------------------------------------------------------------
(* Properties of dispatch (DispatchSpec) *)

\* a dispatch of the given kind has returned (or panicked)
Dispatched(op) == dpc = "done" /\ dcall.op = op

\* the record type of the data slot of the function being called
SlotFields == Fields(dcall.fn.rec)

\* CallArg of static.go was handed a map with string keys for a record slot,
\* and every entry that names a field has a value of the field's type
MapOfFieldValues ==
    /\ Dispatched("CallArg") /\ dcall.arg.kind = "map"
    /\ \E k \in 1..Len(dcall.fn.in) : dcall.fn.in[k] \in {"struct", "ptrstruct"}
    /\ \A k \in DOMAIN dcall.arg.entries \cap DOMAIN SlotFields :
          dcall.arg.entries[k].kind = SlotFields[k]

\* C13: CallArg with a string-keyed map for a record slot sets every field
\* whose name is a key to that key's value, leaves the other fields at their
\* zero value, and skips keys that name no field: no error of the binder, and
\* the callable runs.
C13_MapBinding ==
    MapOfFieldValues =>
        /\ ~dres.panicked /\ dres.ran = 1 /\ dres.scans = <<>>
        /\ DOMAIN dres.seen = DOMAIN SlotFields
        /\ \A f \in DOMAIN SlotFields :
              dres.seen[f] = IF f \in DOMAIN dcall.arg.entries
                             THEN dcall.arg.entries[f]
                             ELSE Zero(SlotFields[f])
        /\ dres.err \notin {ErrAssign, ErrMapKey, ErrNotStruct, ErrScan}

\* C13 witness: {A: "x", Z: "y"} was bound to a slot of type {A string; B int}
\* and the callable ran with A = "x" and B = 0.
C13_Witness ==
    /\ MapOfFieldValues
    /\ DOMAIN dcall.arg.entries = {"A", "Z"} /\ DOMAIN SlotFields = {"A", "B"}
    /\ dres.ran = 1
    /\ dres.seen["A"] = StrV("x") /\ dres.seen["B"] = IntV("0")

\* the function being called has a data slot
HasDataSlot == \E k \in 1..Len(dcall.fn.in) : dcall.fn.in[k] # "ctx"

\* the caller passed nil, a nil pointer, or nothing at all as the input
NilInput ==
    \/ Dispatched("CallArg") /\ dcall.arg.kind \in {"nil", "nilptr"}
    \/ Dispatched("FuncCallArg") /\ ~dcall.arg.given

\* C14 (as claimed): CallArg with a nil or absent input on a callable with a
\* data slot is no error: the slots stay at their zero value, the callable
\* runs and its result is returned.
C14_NilInputProceeds ==
    NilInput /\ HasDataSlot =>
        /\ ~dres.panicked
        /\ dres.ran = 1
        /\ dres.err \notin {ErrAssign, ErrMapKey, ErrNotStruct}
        /\ Dispatched("CallArg") => dres.seen = ZeroRecord(dcall.fn.rec)

\* the error the body of the function being called returns
CallableErr == IF dcall.fn.out \in {"error", "erroronly"} THEN ErrFetch ELSE NoErr

\* the dispatch entry points
DispatchOps == {"CallArg", "Call", "FuncCallArg", "FuncCall", "Call[T]"}

\* C15 (as claimed): whichever entry point dispatched the call, an error the
\* callable returned is what the caller gets as error.
C15_CallableErrorSurfaces ==
    dpc = "done" /\ dcall.op \in DispatchOps /\ dres.ran = 1 /\ CallableErr # NoErr
        => dres.err = CallableErr

\* the declared type of the data slot of a function of part_008
FuncSlot == FirstDataParam(dcall.fn)

\* The binder has to fail on the input of the dispatch: a map with keys that
\* are no strings, an input that is no record, map or pointer, a value that
\* is neither of the field's type nor convertible to it nor taken by Scan, a
\* Scan that fails, a payload that does not decode.
BindingMustFail ==
    \/ /\ Dispatched("CallArg") /\ HasDataSlot
       /\ \/ dcall.arg.kind \in {"mapint", "string", "nil"}
          \/ /\ dcall.arg.kind \in {"map", "struct", "ptrstruct"}
             /\ \E k \in DOMAIN dcall.arg.entries \cap DOMAIN SlotFields :
                   \/ dcall.arg.entries[k].kind = "string" /\ SlotFields[k] = "int"
                   \/ SlotFields[k] \in {"ptrScan", "valScan"} /\ dcall.herr # NoErr
    \/ /\ Dispatched("Call") /\ HasDataSlot /\ dcall.input.present
       /\ \/ ~dcall.input.valid
          \/ \E k \in DOMAIN dcall.input.entries \cap DOMAIN SlotFields :
                dcall.input.entries[k].kind # SlotFields[k]
    \/ /\ Dispatched("FuncCallArg") /\ HasDataSlot /\ dcall.arg.given
       /\ \/ dcall.arg.val.kind = "nil"
          \/ (FuncSlot = "string") # (dcall.arg.val.kind = "string")
    \/ /\ Dispatched("FuncCall") /\ HasDataSlot /\ dcall.input.present
       /\ \/ ~dcall.input.valid
          \/ (FuncSlot = "string") # (dcall.input.val.kind = "string")

\* C16: Call and CallArg run the callable at most once, and not at all when
\* binding the input fails: the caller then gets a binding error and a nil
\* result.
C16_NoCallOnBindingError ==
    dpc = "done" /\ dcall.op \in {"CallArg", "Call", "FuncCallArg", "FuncCall"} =>
        /\ dres.ran \in {0, 1}
        /\ BindingMustFail =>
              /\ dres.ran = 0 /\ ~dres.panicked
              /\ dres.err \in {ErrAssign, ErrMapKey, ErrNotStruct, ErrScan, ErrJson}
              /\ dres.val = NilValue

\* C16 witness: a map whose second field value does not fit: the first field
\* was bound, the callable did not run, the caller got the binding error.
C16_Witness ==
    /\ Dispatched("CallArg") /\ BindingMustFail
    /\ dcall.arg.kind = "map" /\ DOMAIN dcall.arg.entries = {"A", "B"}
    /\ dcall.keys = <<"A", "B">>
    /\ dres.ran = 0 /\ dres.err = ErrAssign /\ dres.val = NilValue

\* the fields of the slot that CallArg fills through Scan: the input has a
\* value for them that is neither assignable nor convertible to the field
ScannedFields ==
    {f \in DOMAIN dcall.arg.entries \cap DOMAIN SlotFields :
        SlotFields[f] \in {"ptrScan", "valScan"}}

\* C17: a field filled through Scan has Scan called exactly once, with the
\* caller's value as it is (not converted), for a field that is a pointer to
\* the scanning type (allocated first) and for a field whose address scans.
C17_ScanGetsRawValue ==
    Dispatched("CallArg") /\ dcall.arg.kind \in {"map", "struct", "ptrstruct"}
    /\ HasDataSlot /\ ScannedFields # {} =>
        \E f \in ScannedFields :
            /\ ScannedFields = {f}
            /\ dres.scans = <<dcall.arg.entries[f]>>
            /\ dcall.herr = NoErr =>
                  /\ dres.ran = 1
                  /\ dres.seen[f].kind = SlotFields[f]
                  /\ dres.seen[f].v = dcall.arg.entries[f].v
                  /\ dres.seen[f].of = dcall.arg.entries[f].kind

\* C17 witness: an int was handed to a field of type scannableObject, whose
\* address has Scan, and Scan received the int.
C17_Witness ==
    /\ Dispatched("CallArg") /\ dcall.fn.rec = "RecFooV" /\ dcall.herr = NoErr
    /\ dcall.arg.kind = "map" /\ DOMAIN dcall.arg.entries = {"Foo"}
    /\ dcall.arg.entries["Foo"] = IntV("7")
    /\ dres.scans = <<IntV("7")>> /\ dres.ran = 1
    /\ dres.seen["Foo"] = FV("valScan", "7", "int")

\* the number of context parameters of the function handed to Static
NumCtx == Cardinality({k \in 1..Len(dcall.fn.in) : dcall.fn.in[k] = "ctx"})

\* the other parameters are of a kind Static accepts: for static.go at most
\* one record or pointer to a record and nothing else
SupportedParams ==
    \/ dcall.op = "Func"
    \/ /\ \A k \in 1..Len(dcall.fn.in) : dcall.fn.in[k] \in {"ctx", "struct", "ptrstruct"}
       /\ Cardinality({k \in 1..Len(dcall.fn.in) : dcall.fn.in[k] # "ctx"}) <= 1

\* C18: Static(fn) panics when fn is no function or has two or more context
\* parameters, and returns a descriptor for every function with at most one
\* context parameter whose other parameters are supported.
C18_StaticPanics ==
    dcall.op \in {"Static", "Func"} =>
        /\ ~dcall.fn.isFunc \/ NumCtx >= 2 => dpc = "done" /\ dres.panicked
        /\ dcall.fn.isFunc /\ NumCtx <= 1 /\ SupportedParams =>
              /\ dpc = "ready" /\ sm.built /\ sm.s.fn = dcall.fn
              /\ sm.s.cnt = Len(dcall.fn.in)
              /\ IF NumCtx = 0 THEN sm.s.ctxPos = -1
                 ELSE dcall.fn.in[sm.s.ctxPos + 1] = "ctx"

\* C18 witness: Static has panicked on a function with two context
\* parameters.
C18_Witness ==
    /\ dcall.op = "Static" /\ dpc = "done" /\ dres.panicked
    /\ dcall.fn.isFunc /\ NumCtx = 2

\* the nodes that have a record type
Typed == {n \in 1..Len(nodes) : nodes[n].typ # NoType}

\* the nodes in the list All() has returned
AllResult == {ret[1].all[i] : i \in DOMAIN ret[1].all}

\* C19: All() returns exactly the nodes that have a record type, each node
\* on which Register or RegisterActions succeeded among them, also when one
\* record type was registered under several paths.
C19_AllListsEveryTypedNode ==
    pc[1] = "done" /\ call[1].op = "All" => AllResult = Typed

\* a documentation setter returns in this step
SetterStep ==
    /\ pc[1] \in {"SetDoc", "SetFieldDoc", "Method.SetDoc", "SetRequiresInstance"}
    /\ pc'[1] = "done"

\* the tree, the record types and the action bindings of the nodes ns
Structure(ns) ==
    [n \in 1..Len(ns) |->
        [name |-> ns[n].name, typ |-> ns[n].typ, children |-> ns[n].children,
         methods |-> ns[n].methods, Action |-> ns[n].Action, parent |-> ns[n].parent]]

\* the method bindings held by the methods mh
Bindings(mh) ==
    [m \in 1..Len(mh) |->
        [callable |-> mh[m].callable, object |-> mh[m].object, name |-> mh[m].name]]

\* what o.Static(name) returns on the nodes ns and methods mh
StaticOf(ns, mh, o, name) ==
    IF name \in DOMAIN ns[o].methods THEN mh[ns[o].methods[name]].callable
    ELSE NilCallable

\* C20: a step of SetDoc, SetFieldDoc, Method.SetDoc or SetRequiresInstance
\* changes documentation metadata only: the tree, the record types, the
\* method and action bindings and the type index stay as they were, and so
\* does what Get, GetByType and Static return afterwards.
C20_SettersTouchDocsOnly ==
    [][SetterStep =>
          /\ Structure(nodes') = Structure(nodes)
          /\ Bindings(mheap') = Bindings(mheap)
          /\ typLookup' = typLookup
          /\ \A p \in ObjNames : lookup(nodes', p) = lookup(nodes, p)
          /\ \A T \in TypeArgs :
                TypLookupGet(typLookup', TypeOfArg(T)) = TypLookupGet(typLookup, TypeOfArg(T))
          /\ \A o \in 1..Len(nodes), m \in MethNames :
                StaticOf(nodes', mheap', o, m) = StaticOf(nodes, mheap, o, m)]_vars

\* C20 witness: a field of a registered record type and a bound method have
\* been documented.
C20_Witness ==
    /\ pc[1] = "done" /\ call[1].op = "SetFieldDoc"
    /\ obj[1] # NoNode /\ nodes[obj[1]].typ = T1
    /\ TypLookupGet(typLookup, T1) = obj[1]
    /\ "Name" \in DOMAIN nodes[obj[1]].fields
    /\ nodes[obj[1]].fields["Name"] =
          [name |-> "Name", doc |-> "d", typ |-> "string", object |-> obj[1]]
    /\ mth[1] # NoMethod /\ mheap[mth[1]].doc = "d"
    /\ mheap[mth[1]].callable # NilCallable

\* thread t builds the callable of a RegisterMethod call in this step
BuildsCallable(t) == call'[t].op = "RegisterMethod" /\ get'[t].fn # get[t].fn

\* C21 as stated: the callable of RegisterMethod is built while the write
\* lock is held.
C21_CallableBuiltUnderLock ==
    [][\A t \in Threads : BuildsCallable(t) => mu.writer = t]_vars

\* C21 amended: the callable of RegisterMethod is built exactly once, when
\* the call starts and before the write lock is taken; the binding stored
\* under the lock holds that callable, and no later step changes the
\* callable of a binding.
C21_CallableBuiltOnceBeforeLock ==
    /\ [][\A t \in Threads :
             BuildsCallable(t) =>
                 /\ pc[t] = "idle" /\ pc'[t] = "Lock" /\ mu.writer # t
                 /\ get'[t].fn = Func(call'[t].fn)]_vars
    /\ [][\A t \in Threads :
             pc[t] = "RegisterMethod" /\ pc'[t] = "Unlock" =>
                 /\ mu.writer = t
                 /\ Len(mheap') = Len(mheap) + 1
                 /\ mheap'[Len(mheap')].callable = Func(call[t].fn)]_vars
    /\ [][\A m \in 1..Len(mheap) : mheap'[m].callable = mheap[m].callable]_vars

\* C21 witness: a method was bound and then documented, its callable is the
\* one built for the registration.
C21_Witness ==
    /\ pc[1] = "done" /\ call[1].op = "Method.SetDoc"
    /\ mth[1] # NoMethod /\ mheap[mth[1]].doc = "d"
    /\ mheap[mth[1]].callable = Func(FetchById)

\* C22: the String of a node other than the root is the path it was made
\* under, empty segments included, and Get of that String returns the node;
\* the String of a method is its node's String, ':' and the method name; the
\* String of the root is empty.
C22_StringIsPath ==
    /\ \A n \in 2..Len(nodes) : lookup(nodes, ObjectString(nodes, n)) = n
    /\ \A i \in 1..Len(regLog) : ObjectString(nodes, regLog[i].node) = regLog[i].name
    /\ Done(1, "Get") /\ obj[1] \notin {NoNode, root}
         /\ call[1].name = ObjectString(nodes, obj[1]) => ret[1].node = obj[1]
    /\ Done(1, "Get") /\ ret[1].node # NoNode =>
          ObjectString(nodes, ret[1].node) = call[1].name
    /\ Done(1, "RegisterMethod") /\ ~ret[1].panicked =>
          MethodString(nodes, mheap, ret[1].meth) = call[1].name
    /\ Done(1, "Root") => ObjectString(nodes, ret[1].node) = <<>>

\* C22 witness: the node registered as "a//b" was resolved from its String.
C22_Witness ==
    /\ Done(1, "Get") /\ obj[1] # NoNode /\ ret[1].node = obj[1]
    /\ call[1].name = <<"a", "/", "/", "b">>
    /\ nodes[obj[1]].name = <<"b">> /\ nodes[nodes[obj[1]].parent].name = <<>>
    /\ nodes[obj[1]].typ # NoType

\* what the callable of the dispatch returned, slot by slot
Returned == Returns(dcall.fn, "")

\* the last of the returned slots that is (is not) of an error type, 0 if none
LastSlot(isErr) ==
    LET S == {i \in 1..Len(Returned) : Returned[i].isErr = isErr}
    IN  IF S = {} THEN 0 ELSE CHOOSE i \in S : \A j \in S : j <= i

\* C23: the error handed to the caller is the value of the last returned slot
\* of an error type (a later nil overrides an earlier error), the output is
\* the value of the last slot of another type, and a callable that returns
\* nothing gives (nil, nil).
C23_LastSlotWins ==
    dpc = "done" /\ dcall.op \in {"CallArg", "Call"} /\ dres.ran = 1 =>
        /\ dres.err = IF LastSlot(TRUE) = 0 THEN NoErr ELSE Returned[LastSlot(TRUE)].err
        /\ dres.val = IF LastSlot(FALSE) = 0 THEN NilValue ELSE Returned[LastSlot(FALSE)].val

\* C23 witness: the callable returned an error and then a nil error, and the
\* caller got no error.
C23_Witness ==
    /\ dpc = "done" /\ dcall.op = "Call" /\ dres.ran = 1
    /\ Len(Returned) = 2 /\ Returned[1].isErr /\ Returned[1].err = ErrFetch
    /\ Returned[2].isErr /\ Returned[2].err = NoErr
    /\ dres.err = NoErr /\ dres.val = NilValue

\* the parameter positions the descriptor holds: the context's, the data slots'
CtxSlot == IF sm.s.ctxPos = -1 THEN {} ELSE {sm.s.ctxPos}
DataSlots ==
    IF sm.ver = "static.go" THEN (IF sm.s.argPos = -1 THEN {} ELSE {sm.s.argPos})
    ELSE {sm.s.argPos[k] : k \in 1..Len(sm.s.argPos)}

\* the context position and the data-slot positions of a descriptor are the
\* parameter positions, each once, the data slots in declaration order
SlotsPartition ==
    sm.built =>
        /\ CtxSlot \cup DataSlots = 0..(sm.s.cnt - 1)
        /\ CtxSlot \cap DataSlots = {}
        /\ sm.ver = "part_008" =>
              \A j, k \in 1..Len(sm.s.argPos) : j < k => sm.s.argPos[j] < sm.s.argPos[k]

\* C24 (as claimed): the context position and the data slots of a descriptor
\* partition the parameter positions, and when CallArg calls the function
\* every position of the argument vector has been filled.
C24_EverySlotFilled ==
    /\ SlotsPartition
    /\ dpc = "done" /\ dcall.op \in {"CallArg", "FuncCallArg"} =>
          \A i \in 1..Len(dres.args) : dres.args[i] # "zero"

\* assignValueTo has returned
Assigned == dpc = "done" /\ dcall.op = "assignValueTo"

\* the source is of the field's type, or converts to it, or the field scans
SrcAssignable == AssignableTo(dcall.src.kind, dcall.dstt)
SrcConvertible == ConvertibleTo(dcall.src.kind, dcall.dstt)
DstScans == dcall.dstt \in {"ptrScan", "valScan"}

\* the rules of assignValueTo in their order: assign, else convert, else
\* Scan, else the incompatible-type error, which leaves the field as it was
RulesInOrder ==
    /\ SrcAssignable => dres.err = NoErr /\ dres.val = dcall.src /\ dres.scans = <<>>
    /\ ~SrcAssignable /\ SrcConvertible =>
          /\ dres.err = NoErr /\ dres.scans = <<>>
          /\ dres.val.kind = dcall.dstt /\ dres.val # dcall.src
    /\ ~SrcAssignable /\ ~SrcConvertible /\ DstScans =>
          dres.scans = <<dcall.src>> /\ dres.err = dcall.herr
    /\ ~SrcAssignable /\ ~SrcConvertible /\ ~DstScans =>
          dres.err = ErrAssign /\ dres.scans = <<>> /\ dres.val = Zero(dcall.dstt)

\* C25 as stated: the rules apply in their order, and whenever assignValueTo
\* returns an error the field is as it was before.
C25_FieldUntouchedOnError ==
    Assigned => /\ RulesInOrder
                /\ dres.err # NoErr => dres.val = Zero(dcall.dstt)

\* C25 amended: the rules apply in their order, Scan being called only for a
\* source that is neither assignable nor convertible; the incompatible-type
\* error leaves the field as it was, while a failing Scan on a nil pointer
\* field leaves the pointer it was given allocated.
C25_CoercionOrder ==
    Assigned => /\ RulesInOrder
                /\ dres.err # NoErr /\ dres.scans # <<>> /\ dcall.dstt = "ptrScan" =>
                      dres.val # Zero(dcall.dstt)

\* C25 witness: a value that converts to the scanning field's type was
\* converted, and Scan was not called.
C25_Witness ==
    /\ Assigned /\ dcall.dstt = "valScan" /\ dcall.src.kind = "otherScan"
    /\ dres.err = NoErr /\ dres.scans = <<>> /\ dres.val = FV("valScan", "o", "converted")

\* the number of data slots of the function being called
NumDataSlots == Cardinality({k \in 1..Len(dcall.fn.in) : dcall.fn.in[k] # "ctx"})

\* the payload is a document of the shape the data slots ask for: a value of
\* the one slot's type, or an array with one element per slot
PayloadFits ==
    /\ dcall.input.present /\ dcall.input.valid
    /\ IF NumDataSlots = 1
       THEN (FuncSlot = "string") = (dcall.input.val.kind = "string")
            /\ dcall.input.val.kind # "list"
       ELSE dcall.input.val.kind = "list"

\* C26 (as claimed): Call with a payload that fits decodes it into the one
\* data slot, or element by element into the several data slots, and runs
\* the callable with every slot filled.
C26_PayloadDistributed ==
    Dispatched("FuncCall") /\ NumDataSlots >= 1 /\ PayloadFits =>
        ~dres.panicked /\ dres.ran = 1 /\ dres.err # ErrJson

\* C27: the registry only grows: a record type that is set stays as it is, a
\* node keeps its name and parent, a path that resolves keeps resolving to
\* the same node through every step of Register, RegisterActions,
\* RegisterMethod and the setters, panicking or not, and Get returns the node
\* the path resolves to.
C27_AppendOnly ==
    /\ [][/\ Len(nodes') >= Len(nodes)
          /\ \A n \in 1..Len(nodes) :
                /\ nodes[n].typ # NoType => nodes'[n].typ = nodes[n].typ
                /\ nodes'[n].name = nodes[n].name /\ nodes'[n].parent = nodes[n].parent
          /\ \A p \in ObjNames :
                lookup(nodes, p) # NoNode => lookup(nodes', p) = lookup(nodes, p)]_vars
    /\ [](Done(1, "Get") => ret[1].node = lookup(nodes, call[1].name))

\* C27 witness: after a registration of T1, a registration that panicked and
\* a setter call, Get returns the node, which still has type T1.
C27_Witness ==
    /\ Done(1, "Get") /\ ret[1].node # NoNode
    /\ nodes[ret[1].node].typ = T1 /\ nodes[ret[1].node].doc = "d"
    /\ calls.reg = 2 /\ Len(regLog) = 1 /\ mheap = <<>>
    /\ regLog[1].node = ret[1].node

\* the registrations of the record type behind the type argument T, as
\* positions of the log of successful registrations
RegistrationsOf(T) ==
    {i \in 1..Len(regLog) : TypeOfArg(regLog[i].T) = TypeOfArg(T)}

\* the most recent of them
LastRegistration(T) ==
    regLog[CHOOSE i \in RegistrationsOf(T) : \A j \in RegistrationsOf(T) : j <= i]

\* C28: the type index holds for a record type the node of its most recent
\* registration: the String of what GetByType returns is the last path
\* registered with the type, and ById uses the actions of that node.
C28_IndexFollowsLastPath ==
    /\ \A T \in FetchTypes :
          RegistrationsOf(T) # {} =>
              TypLookupGet(typLookup, TypeOfArg(T)) = LastRegistration(T).node
    /\ Done(1, "GetByType") /\ RegistrationsOf(call[1].T) # {} =>
          /\ ret[1].node # NoNode
          /\ ObjectString(nodes, ret[1].node) = LastRegistration(call[1].T).name
    /\ call[1].op = "ById" /\ pc[1] \in {"CallArg", "ByIdReturn", "done"}
         /\ RegistrationsOf(call[1].T) # {} =>
          LET o == LastRegistration(call[1].T).node
          IN  IF MissingAction(nodes, o)
              THEN ret[1].err = ErrMissingAction /\ invoked[1].n = 0
              ELSE get[1].fn = nodes[o].Action.Fetch

\* C28 witness: T1 was registered under two paths with two Fetch functions,
\* and ById[T1] has run the Fetch of the second.
C28_Witness ==
    /\ Done(1, "ById") /\ Len(regLog) = 2
    /\ RegistrationsOf(T1) = {1, 2} /\ regLog[1].name # regLog[2].name
    /\ ~MissingAction(nodes, regLog[1].node) /\ ~MissingAction(nodes, regLog[2].node)
    /\ nodes[regLog[1].node].Action.Fetch # nodes[regLog[2].node].Action.Fetch
    /\ get[1].fn = nodes[regLog[2].node].Action.Fetch
    /\ invoked[1].n = 1

\* thread t is in a Register or RegisterActions call on a path whose node has
\* a record type already
RegistersTaken(t) ==
    /\ call[t].op \in {"Register", "RegisterActions"}
    /\ lookup(nodes, call[t].name) # NoNode
    /\ nodes[lookup(nodes, call[t].name)].typ # NoType

\* C29: a Register or RegisterActions call panics exactly when the node of
\* its path has a type already; no step of such a call creates a node or
\* changes a type, an action set, a method or the type index, and the write
\* lock is free again when the call is over. A RegisterMethod call rejected
\* for its name or its function ends at once: nothing is created and the lock
\* is not asked for.
C29_FailedRegistrationLeavesNoTrace ==
    /\ [][\A t \in {1} :
             /\ pc[t] \in {"Register", "RegisterActions"} /\ pc'[t] = "Unlock" =>
                   (ret'[t].panicked <=> RegistersTaken(t))
             /\ RegistersTaken(t) /\ pc[t] \in {"Lock", "lookup", "create"} =>
                   RegistersTaken(t)'
             /\ RegistersTaken(t) /\ pc[t] # "done" => registry' = registry
             /\ call'[t].op = "RegisterMethod" /\ pc[t] = "idle"
                  /\ RegisterMethodPanics(call'[t].name, call'[t].fn) =>
                   /\ pc'[t] = "done" /\ ret'[t].panicked
                   /\ registry' = registry /\ mu' = mu]_vars
    /\ [](\A t \in {1} : pc[t] = "done" => mu.writer = NoThread /\ mu.readers = {})

\* C29 witness: RegisterActions of another type on a path that has a type and
\* actions has panicked; the node is as it was and the lock is free.
C29_Witness ==
    /\ Done(1, "RegisterActions") /\ ret[1].panicked
    /\ mu.writer = NoThread
    /\ Len(regLog) = 1 /\ regLog[1].name = call[1].name
    /\ TypeOfArg(regLog[1].T) # TypeOfArg(call[1].T)
    /\ nodes[regLog[1].node].typ = TypeOfArg(regLog[1].T)
    /\ DOMAIN typLookup = {TypeOfArg(regLog[1].T)}

\* goroutine t holds the tree lock, exclusive or shared
HoldsLock(t) == mu.writer = t \/ t \in mu.readers

\* C30: when o.ById invokes Fetch the calling goroutine holds no tree lock,
\* and neither does it when a registry function called from the body of
\* Fetch asks for the lock; as long as some call is under way, also one made
\* from inside Fetch while another goroutine registers, some goroutine can
\* take its next step.
C30_CallableRunsUnlocked ==
    /\ \A t \in Threads :
          /\ pc[t] = "CallArg" => ~HoldsLock(t)
          /\ pc[t] \in {"Lock", "RLock"} => ~HoldsLock(t)
          /\ frame[t].live /\ pc[t] \notin {"Lock", "RLock"} => ENABLED ReentrantStep(t)
    /\ (\E t \in Threads : pc[t] # "idle") => \E t \in Threads : ENABLED ReentrantStep(t)

\* C30 witness: ById[T] has returned the record of a Fetch function that
\* registered a type from its body, while the other goroutine is inside
\* Register.
C30_Witness ==
    /\ pc[1] = "done" /\ call[1].op = "ById" /\ ~ret[1].panicked /\ ret[1].err = NoErr
    /\ ~frame[1].live /\ calls.nested = 1 /\ invoked[1].n = 1
    /\ Len(regLog) = 2 /\ regLog[2].name = <<"b">> /\ regLog[2].T = T2
    /\ calls.reg = 2 /\ call[2].op = "Register" /\ pc[2] \in {"Lock", "lookup"}

====
